---- MODULE Spec2Model ----
(***************************************************************************)
(* Resumable crawl, checkpoint and merge logic of the hotel brand          *)
(* scrapers (src/scrapers/hilton.py, src/scrapers/ihg.py).  The browser    *)
(* is an external collaborator: it shows one listing page at a time and    *)
(* its failures are nondeterministic choices.                              *)
(***************************************************************************)
EXTENDS Integers, Sequences, FiniteSets, TLC

VARIABLES
    \* ---- Hilton: files on disk
    hilton_state_file,      \* STATE_FILE
    hilton_json,            \* OUTPUT_FILE_JSON
    hilton_csv,             \* OUTPUT_FILE_CSV
    \* ---- Hilton: the process (module globals and main's locals)
    hilton_pc,
    last_success_time,
    loc_idx,
    page,
    i,
    start_location_idx,
    start_page,
    start_hotel_idx,
    shown,                  \* the listing page the browser displays
    data,                   \* the list read back from OUTPUT_FILE_JSON
    save_arg,               \* the arguments of the running save_state call
    save_ret,               \* where the running save_state call returns to
    now,                    \* time.time()
    kills,                  \* process terminations so far
    fails,                  \* driver failures so far
    \* ---- Hilton: history of the run, read by the properties only
    hilton_exit,            \* how the last main() ended
    hilton_raised,          \* the exception that ended the last main()
    killed_after,           \* the item whose save_state the last kill followed:
                            \* location, listing page, index
    first_at_kill,          \* the first item processed since at that location
                            \* and page number: location, listing page shown,
                            \* index
    stall_at,               \* time of the last stall raised since a success
    stall_repeat,           \* a stall was raised again within the threshold
    \* ---- ihg.append_or_merge called on its own
    merge_pc,
    merge_existing,         \* the record set S (all_hotels)
    merge_hotels,           \* the incoming list
    merge_result,           \* the list append_or_merge returns
    \* ---- ihg.retryable wrapping an operation
    retry_pc,
    max_retries,
    attempt,
    last_exc,
    retry_calls,            \* the exceptions the calls of fn raised, in order
    retry_raised,           \* the exception the wrapper raised to its caller
    retry_slept,            \* seconds slept by backoff_sleep, jitter left out
    \* ---- ihg.main: files
    checkpoint_json,        \* CHECKPOINT_JSON
    hotel_json,             \* HOTEL_JSON
    hotel_csv,              \* HOTEL_CSV
    \* ---- ihg.main: the process
    ihg_pc,
    ihg_ret,                \* where the running save continues when it is done
    checkpoint_state,       \* checkpoint.state
    all_hotels,
    ihg_hotels,             \* hotels of main
    city_i,                 \* i of the loop over cities
    start_city_idx,
    ihg_start_hotel_idx,
    scrape_attempt,         \* attempt of the retry wrapper around scrape_city
    processed_cities_since_save,
    \* ---- ihg.main: history
    ihg_runs,               \* starts of the process so far
    ihg_scraped,            \* cities whose hotels reached the JSON output
    ihg_rescrape,           \* the last scrape returned hotels of such a city
    ihg_failed,             \* some scrape_city call raised to main
    \* ---- hyatt.main: files
    hyatt_checkpoint_json,  \* CHECKPOINT_JSON of hyatt.py
    hyatt_json,             \* OUTPUT_JSON
    hyatt_csv,              \* OUTPUT_CSV
    \* ---- hyatt.main: the process
    hyatt_pc,
    hyatt_ret,              \* where main continues after checkpoint.save
    checkpoint_index,       \* checkpoint.index
    results,
    scraped_urls,
    hotel_index,
    total_cards,
    shown_cards,            \* cards the page lists
    \* ---- hyatt.main: history
    hyatt_runs,             \* starts of the process so far
    hyatt_fails,            \* driver failures so far
    hyatt_exit,             \* how the last main() ended
    hyatt_at_raise,         \* the checkpoint file when the exception escaped
    hyatt_loaded,           \* the hotel_url values main() found in OUTPUT_JSON
    hyatt_broken,           \* cards of the list that lack a selected element
    hyatt_attempts,         \* passes of the card loop that ended in the except
    \* ---- hilton.main: more history
    prev_state_file,        \* STATE_FILE as it was when save_state was entered
    last_saved,             \* the position of the last save_state that returned
    failed_item,            \* the item that failed last in this process
    failed_earlier,         \* the item that failed last in an earlier process
    failed_retried,         \* an item that failed earlier was processed again
    called_after_return,    \* __main__ called main() after a main() returned
    \* ---- hilton.retry_action
    retry_action_pc,
    retries,
    retry_action_i,         \* i of the loop of retry_action
    action_calls,           \* the exceptions the calls of action raised
    retry_action_raised,    \* the exception retry_action raised to its caller
    \* ---- ihg.main: history of its start
    ihg_started_from,       \* CHECKPOINT_JSON as the latest main() found it
    ihg_start_raised,       \* an exception escaped the start of main()
    \* ---- Marriott: files on disk
    marriott_json,          \* OUTPUT_FILE_JSON
    marriott_csv,           \* OUTPUT_FILE_CSV
    \* ---- Marriott: the process
    marriott_pc,
    marriott_last_success_time,
    region_i,               \* position of main's loops over the regions
    page_num,
    marriott_idx,           \* idx of iterate_cards_on_list
    marriott_now,           \* time.time()
    \* ---- marriott.main: history
    marriott_runs,          \* calls of main() so far
    marriott_fails,         \* driver failures so far
    marriott_exit,          \* how the last main() ended
    marriott_stalled,       \* watchdog_check raised in this call of main()
    run_persisted,          \* the hotels this call of main() has persisted
    persisted_at_fail,      \* the hotels persisted by a main() that raised
    \* ---- hilton.load_state called on an object
    load_pc,
    load_data,              \* data = json.load(f)
    load_result,            \* what load_state returned
    \* ---- main.run_parallel and the processes it starts
    parallel_pc,
    names,                  \* the argument of run_parallel
    processes,              \* the processes started so far, by name
    join_i,                 \* how many of them have been joined
    child,                  \* the state of each brand's process
    writers,                \* who wrote each file
    failed_while_starting   \* a child failed before the last one was started

hilton_vars ==
    << hilton_state_file, hilton_json, hilton_csv, hilton_pc, last_success_time,
       loc_idx, page, i, start_location_idx, start_page, start_hotel_idx, shown,
       data, save_arg, save_ret, now, kills, fails, hilton_exit, hilton_raised,
       killed_after, first_at_kill, stall_at, stall_repeat >>

merge_vars == << merge_pc, merge_existing, merge_hotels, merge_result >>

retry_vars ==
    << retry_pc, max_retries, attempt, last_exc, retry_calls, retry_raised,
       retry_slept >>

ihg_vars ==
    << checkpoint_json, hotel_json, hotel_csv, ihg_pc, ihg_ret,
       checkpoint_state, all_hotels, ihg_hotels, city_i, start_city_idx,
       ihg_start_hotel_idx, scrape_attempt, processed_cities_since_save,
       ihg_runs, ihg_scraped, ihg_rescrape, ihg_failed >>

hyatt_vars ==
    << hyatt_checkpoint_json, hyatt_json, hyatt_csv, hyatt_pc, hyatt_ret,
       checkpoint_index, results, scraped_urls, hotel_index, total_cards,
       shown_cards, hyatt_runs, hyatt_fails, hyatt_exit, hyatt_at_raise,
       hyatt_loaded, hyatt_broken, hyatt_attempts >>

hilton_history_vars ==
    << prev_state_file, last_saved, failed_item, failed_earlier,
       failed_retried, called_after_return >>

retry_action_vars ==
    << retry_action_pc, retries, retry_action_i, action_calls,
       retry_action_raised >>

ihg_start_vars == << ihg_started_from, ihg_start_raised >>

marriott_vars ==
    << marriott_json, marriott_csv, marriott_pc, marriott_last_success_time,
       region_i, page_num, marriott_idx, marriott_now, marriott_runs,
       marriott_fails, marriott_exit, marriott_stalled, run_persisted,
       persisted_at_fail >>

load_vars == << load_pc, load_data, load_result >>

parallel_vars ==
    << parallel_pc, names, processes, join_i, child, writers,
       failed_while_starting >>

vars ==
    << hilton_vars, merge_vars, retry_vars, ihg_vars, hyatt_vars,
       hilton_history_vars, retry_action_vars, ihg_start_vars, marriott_vars,
       load_vars,
       parallel_vars >>

\* what a call of append_or_merge leaves alone
merge_frame ==
    UNCHANGED << hilton_vars, retry_vars, ihg_vars, hyatt_vars,
                 hilton_history_vars, retry_action_vars,
                 ihg_start_vars, marriott_vars,
                 load_vars,
                 parallel_vars >>

\* what a step of the retry wrapper leaves alone
retry_frame ==
    UNCHANGED << hilton_vars, merge_vars, ihg_vars, hyatt_vars,
                 hilton_history_vars, retry_action_vars,
                 ihg_start_vars, marriott_vars,
                 load_vars,
                 parallel_vars >>

ihg_others ==
    UNCHANGED << hilton_vars, merge_vars, retry_vars, hyatt_vars,
                 hilton_history_vars, retry_action_vars, marriott_vars,
                 load_vars,
                 parallel_vars >>

\* what a step of the IHG crawl leaves alone
ihg_frame ==
    /\ ihg_others
    /\ UNCHANGED ihg_start_raised
    /\ ihg_started_from' = IF ihg_pc = "off" /\ ihg_pc' # "off"
                           THEN checkpoint_json
                           ELSE ihg_started_from

\* what a step of the Marriott crawl leaves alone
marriott_frame ==
    UNCHANGED << hilton_vars, merge_vars, retry_vars, ihg_vars, hyatt_vars,
                 hilton_history_vars, retry_action_vars, ihg_start_vars,
                 load_vars,
                 parallel_vars >>

\* what a step of the Hyatt crawl leaves alone
hyatt_others ==
    UNCHANGED << hilton_vars, merge_vars, retry_vars, ihg_vars,
                 hilton_history_vars, retry_action_vars,
                 ihg_start_vars, marriott_vars,
                 load_vars,
                 parallel_vars >>

hyatt_frame ==
    /\ hyatt_others
    /\ UNCHANGED << hyatt_broken, hyatt_attempts >>
    /\ hyatt_loaded' =
          IF hyatt_pc = "off" /\ hyatt_pc' = "cards"
          THEN { hyatt_json.rows[n].hotel_url : n \in DOMAIN hyatt_json.rows }
          ELSE hyatt_loaded

-----------------------------------------------------------------------------
\* Bounds of the model

\* locations in LOCATIONS_FILE
NumLocations == 2
\* process terminations explored
MaxKills == 1
\* records in the set handed to append_or_merge
MaxExisting == 2
\* records in the incoming list handed to append_or_merge
MaxIncoming == 2
\* largest max_retries handed to retryable
MaxRetries == 3
\* cities of the IHG city list
NumCities == 2
\* starts of the IHG process
MaxRuns == 2
\* cards of the Hyatt list once every 'show more' is clicked
NumHyattCards == 3
\* passes of the Hyatt card loop over a card that lacks an element, counted
MaxHyattAttempts == 3
\* cards one 'show more' click adds
HyattBatch == 2
\* starts of the Hyatt process
MaxHyattRuns == 2
\* driver failures of the Hyatt crawl that do not end main
MaxHyattFails == 1
\* driver failures (a failed item, an exception leaving main, a failed click
\* after the refresh) explored
MaxFails == 1
\* region links of the Marriott directory
NumRegions == 2
\* cards on a page of a Marriott region list
MarriottCards == 3
\* calls of marriott.main
MaxMarriottRuns == 2
\* driver failures of the Marriott crawl outside a card
MaxMarriottFails == 1
\* seconds a card that fails takes
MarriottTick == 150
\* failing cards explored
MaxMarriottTicks == 3
\* the largest value of a key of a checkpoint object handed to load_state
MaxPosition == 2
\* seconds the clock advances in one step
TickSeconds == 15000
\* steps of the clock explored
MaxTicks == 3

\* src/scrapers/hilton.py:68
STALL_TIMEOUT_SECONDS == 20000
\* src/scrapers/marriott.py:90
WATCHDOG_STALL_SECONDS == 290
\* src/scrapers/hilton.py:73
REFRESH_EVERY_PAGES == 1

-----------------------------------------------------------------------------
\* Helpers

Min(a, b) == IF a < b THEN a ELSE b

Max(a, b) == IF a > b THEN a ELSE b

\* a key that a JSON object does not hold
Missing == -1

\* dict.get(key, default)
Get(d, key, default) == IF d[key] = Missing THEN default ELSE d[key]

\* no item
NoItem == [c |-> Missing, p |-> Missing, k |-> Missing]

-----------------------------------------------------------------------------
\* Hilton: the checkpoint file

NoKeys ==
    [ location_idx |-> Missing, page |-> Missing, hotel_idx |-> Missing,
      last_location_index |-> Missing, last_page |-> Missing,
      last_card_index |-> Missing ]

\* no file at the path
AbsentFile == [kind |-> "absent", obj |-> NoKeys]

\* a file that json.load rejects (empty, truncated)
CorruptFile == [kind |-> "corrupt", obj |-> NoKeys]

\* the object save_state dumps
StateObject(location_idx, pg, hotel_idx) ==
    [ NoKeys EXCEPT !.location_idx = location_idx, !.page = pg,
                    !.hotel_idx = hotel_idx ]

ZeroPosition == [location_idx |-> 0, page |-> 1, hotel_idx |-> 0]

\* as load_state, each legacy alias looked up before its current key
load_state_legacy_first(file) ==
    IF file.kind = "absent"
    THEN [raised |-> FALSE, pos |-> ZeroPosition]
    ELSE IF file.kind = "corrupt"
    THEN [raised |-> TRUE, pos |-> ZeroPosition]
    ELSE [ raised |-> FALSE,
           pos |-> [ location_idx |->
                        Get(file.obj, "last_location_index",
                            Get(file.obj, "location_idx", 0)),
                     page |->
                        Max(1, Get(file.obj, "last_page",
                                   Get(file.obj, "page", 1))),
                     hotel_idx |->
                        Get(file.obj, "last_card_index",
                            Get(file.obj, "hotel_idx", 0)) ] ]

\* load_state's result: the position, or the exception json.load raises
load_state(file) ==
    IF file.kind = "absent"
    THEN [raised |-> FALSE, pos |-> ZeroPosition]
    ELSE IF file.kind = "corrupt"
    THEN [raised |-> TRUE, pos |-> ZeroPosition]
    ELSE [ raised |-> FALSE,
           pos |-> [ location_idx |->
                        Get(file.obj, "location_idx",
                            Get(file.obj, "last_location_index", 0)),
                     page |->
                        Get(file.obj, "page",
                            Max(1, Get(file.obj, "last_page", 1))),
                     hotel_idx |->
                        Get(file.obj, "hotel_idx",
                            Get(file.obj, "last_card_index", 0)) ] ]

\* what a call of load_state leaves alone
load_frame ==
    UNCHANGED << hilton_vars, merge_vars, retry_vars, ihg_vars, hyatt_vars,
                 hilton_history_vars, retry_action_vars, ihg_start_vars,
                 marriott_vars,
                 parallel_vars >>

\* the values a key of the checkpoint object holds, or the key is missing
KeyValues == {Missing} \cup (0 .. MaxPosition)

\* the objects json.load can return for a checkpoint written by this or an
\* earlier version of the script
CheckpointObjects ==
    [ {"location_idx", "page", "hotel_idx", "last_location_index",
       "last_page", "last_card_index"} -> KeyValues ]

load_Idle ==
    /\ load_pc = "idle"
    /\ load_data = NoKeys
    /\ load_result = ZeroPosition

load_Init ==
    /\ load_pc = "input"
    /\ load_data \in CheckpointObjects
    /\ load_result = ZeroPosition

\* load_state() with STATE_FILE holding the object
load_state_call ==
    /\ load_pc = "input"
    /\ load_result' = load_state([kind |-> "ok", obj |-> load_data]).pos
    /\ load_pc' = "done"
    /\ UNCHANGED load_data
    /\ load_frame

-----------------------------------------------------------------------------
\* Hilton: the output files

EmptyOutput == [kind |-> "absent", rows |-> << >>]

\* f"HILTON-{location_name}-{page}-{i+1}"
hotel_code(loc, pg, idx) == << loc, pg, idx + 1 >>

\* the site: the first location has two listing pages, the others one
PagesOf(loc) == IF loc = 0 THEN 2 ELSE 1

\* the buttons find_elements returns on the displayed page: two 'View hotel
\* details' buttons on a first page, one on a later page
Buttons(loc, displayed) == IF displayed = 1 THEN 2 ELSE 1

\* the pagination-right control is present and enabled
HasNext(loc, displayed) == displayed < PagesOf(loc)

-----------------------------------------------------------------------------
\* Hilton: main() and the __main__ loop

\* the test that skips an item on resume
SkipItem(loc, pg, idx, s_loc, s_page, s_hotel) ==
    loc = s_loc /\ pg = s_page /\ idx < s_hotel

\* the position saved after item idx
ItemCheckpoint(loc, pg, idx) ==
    [location_idx |-> loc, page |-> pg, hotel_idx |-> idx + 1]

\* the position saved after the click on pagination-right
PageCheckpoint(loc, pg) ==
    [location_idx |-> loc, page |-> pg, hotel_idx |-> 0]

\* as LocationCheckpoint, with the location index left where it is
LocationCheckpoint_same(loc) ==
    [location_idx |-> loc, page |-> 1, hotel_idx |-> 0]

\* the position saved when a location is finished
LocationCheckpoint(loc) ==
    [location_idx |-> loc + 1, page |-> 1, hotel_idx |-> 0]

\* the watchdog test at the top of the page loop
Stalled(t, last) == t - last > STALL_TIMEOUT_SECONDS

\* main's locals as they are before main() runs
ResetLocals ==
    /\ loc_idx' = 0
    /\ page' = 1
    /\ i' = 0
    /\ start_location_idx' = 0
    /\ start_page' = 1
    /\ start_hotel_idx' = 0
    /\ shown' = 0
    /\ data' = << >>
    /\ save_arg' = ZeroPosition
    /\ save_ret' = "none"

\* what a step of the Hilton crawl adds to the history: the checkpoint file
\* as save_state found it, the position of the last save_state that returned,
\* the item whose try block raised, and whether the try block of an item that
\* raised in an earlier process is entered again
hilton_history ==
    /\ prev_state_file' =
          IF hilton_pc = "save_open" /\ hilton_pc' = "save_dump"
          THEN hilton_state_file ELSE prev_state_file
    /\ last_saved' =
          IF hilton_pc = "save_dump" /\ hilton_pc' # "boot"
          THEN save_arg ELSE last_saved
    /\ failed_item' =
          IF kills' # kills THEN NoItem
          ELSE IF hilton_pc = "extract" /\ fails' # fails /\ shown = page
          THEN [c |-> loc_idx, p |-> page, k |-> i]
          ELSE failed_item
    /\ failed_earlier' =
          IF kills' # kills /\ failed_item # NoItem
          THEN failed_item ELSE failed_earlier
    /\ failed_retried' =
          \/ failed_retried
          \/ /\ hilton_pc = "item" /\ hilton_pc' = "extract"
             /\ failed_earlier # NoItem
             /\ shown = page
             /\ failed_earlier = [c |-> loc_idx, p |-> page, k |-> i]

\* what a step of the Hilton crawl leaves alone
hilton_frame ==
    /\ UNCHANGED << merge_vars, retry_vars, ihg_vars, hyatt_vars,
                    retry_action_vars, ihg_start_vars, marriott_vars,
                    load_vars,
                 parallel_vars >>
    /\ hilton_history
    /\ UNCHANGED called_after_return

\* the same for a step in which the loop of __main__ calls main()
hilton_call_frame ==
    /\ UNCHANGED << merge_vars, retry_vars, ihg_vars, hyatt_vars,
                    retry_action_vars, ihg_start_vars, marriott_vars,
                    load_vars,
                 parallel_vars >>
    /\ hilton_history
    /\ called_after_return' =
          (called_after_return \/ hilton_exit = "returned")

\* main() ends: 'finally: driver.quit()', back in the __main__ loop
MainEnds(how, exc) ==
    /\ hilton_pc' = "boot"
    /\ hilton_exit' = how
    /\ hilton_raised' = exc
    /\ ResetLocals

hilton_Init ==
    /\ hilton_state_file = AbsentFile
    /\ hilton_json = EmptyOutput
    /\ hilton_csv = EmptyOutput
    /\ hilton_pc = "boot"
    /\ last_success_time = 0
    /\ loc_idx = 0
    /\ page = 1
    /\ i = 0
    /\ start_location_idx = 0
    /\ start_page = 1
    /\ start_hotel_idx = 0
    /\ shown = 0
    /\ data = << >>
    /\ save_arg = ZeroPosition
    /\ save_ret = "none"
    /\ now = 0
    /\ kills = 0
    /\ fails = 0
    /\ hilton_exit = "none"
    /\ hilton_raised = "none"
    /\ killed_after = NoItem
    /\ first_at_kill = NoItem
    /\ stall_at = Missing
    /\ stall_repeat = FALSE
    /\ prev_state_file = AbsentFile
    /\ last_saved = ZeroPosition
    /\ failed_item = NoItem
    /\ failed_earlier = NoItem
    /\ failed_retried = FALSE
    /\ called_after_return = FALSE

\* main(): load_state raises on a file json.load rejects; the __main__ loop
\* catches it and calls main() again
hilton_main_load_raises ==
    /\ hilton_pc = "boot"
    /\ load_state(hilton_state_file).raised
    /\ MainEnds("raised", "JSONDecodeError")
    /\ UNCHANGED << hilton_state_file, hilton_json, hilton_csv, last_success_time,
                    now, kills, fails, killed_after, first_at_kill, stall_at,
                    stall_repeat >>
    /\ hilton_call_frame

\* main(): load_state, the output files are created when absent, and the
\* location loop skips to start_location_idx
hilton_main_begin ==
    /\ hilton_pc = "boot"
    /\ ~load_state(hilton_state_file).raised
    /\ LET pos == load_state(hilton_state_file).pos
       IN  /\ hilton_csv' = IF hilton_csv.kind = "absent"
                            THEN [kind |-> "ok", rows |-> << >>] ELSE hilton_csv
           /\ hilton_json' = IF hilton_json.kind = "absent"
                             THEN [kind |-> "ok", rows |-> << >>] ELSE hilton_json
           /\ IF pos.location_idx < NumLocations
              THEN /\ hilton_pc' = "loc"
                   /\ loc_idx' = pos.location_idx
                   /\ start_location_idx' = pos.location_idx
                   /\ start_page' = pos.page
                   /\ start_hotel_idx' = pos.hotel_idx
                   /\ page' = pos.page
                   /\ hilton_exit' = "running"
                   /\ hilton_raised' = "none"
                   /\ UNCHANGED << i, shown, data, save_arg, save_ret >>
              ELSE MainEnds("returned", "none")
    /\ UNCHANGED << hilton_state_file, last_success_time, now, kills, fails,
                    killed_after, first_at_kill, stall_at, stall_repeat >>
    /\ hilton_call_frame

\* driver.get(location_url): the first listing page of the location is shown
hilton_enter_location ==
    /\ hilton_pc = "loc"
    /\ shown' = 1
    /\ IF loc_idx = start_location_idx
       THEN page' = start_page /\ UNCHANGED start_hotel_idx
       ELSE page' = 1 /\ start_hotel_idx' = 0
    /\ hilton_pc' = "page"
    /\ UNCHANGED << hilton_state_file, hilton_json, hilton_csv, last_success_time,
                    loc_idx, i, start_location_idx, start_page, data, save_arg,
                    save_ret, now, kills, fails, hilton_exit, hilton_raised,
                    killed_after, first_at_kill, stall_at, stall_repeat >>
    /\ hilton_frame

\* top of the page loop: the watchdog raises TimeoutException
hilton_stall ==
    /\ hilton_pc = "page"
    /\ Stalled(now, last_success_time)
    /\ stall_repeat' = (stall_repeat \/
                          (stall_at # Missing /\ ~Stalled(now, stall_at)))
    /\ stall_at' = now
    /\ MainEnds("raised", "stall")
    /\ UNCHANGED << hilton_state_file, hilton_json, hilton_csv, last_success_time,
                    now, kills, fails, killed_after, first_at_kill >>
    /\ hilton_frame

\* top of the page loop: no stall, the buttons of the shown page are found
hilton_page_top ==
    /\ hilton_pc = "page"
    /\ ~Stalled(now, last_success_time)
    /\ i' = 0
    /\ hilton_pc' = "item"
    /\ UNCHANGED << hilton_state_file, hilton_json, hilton_csv, last_success_time,
                    loc_idx, page, start_location_idx, start_page, start_hotel_idx,
                    shown, data, save_arg, save_ret, now, kills, fails, hilton_exit,
                    hilton_raised, killed_after, first_at_kill, stall_at,
                    stall_repeat >>
    /\ hilton_frame

\* for i, btn in enumerate(buttons): 'continue' on an item before the resume point
hilton_item_skip ==
    /\ hilton_pc = "item"
    /\ i < Buttons(loc_idx, shown)
    /\ SkipItem(loc_idx, page, i, start_location_idx, start_page, start_hotel_idx)
    /\ i' = i + 1
    /\ UNCHANGED << hilton_state_file, hilton_json, hilton_csv, hilton_pc,
                    last_success_time, loc_idx, page, start_location_idx,
                    start_page, start_hotel_idx, shown, data, save_arg, save_ret,
                    now, kills, fails, hilton_exit, hilton_raised, killed_after,
                    first_at_kill, stall_at, stall_repeat >>
    /\ hilton_frame

\* the try block of item i is entered
hilton_item_begin ==
    /\ hilton_pc = "item"
    /\ i < Buttons(loc_idx, shown)
    /\ ~SkipItem(loc_idx, page, i, start_location_idx, start_page, start_hotel_idx)
    /\ hilton_pc' = "extract"
    /\ first_at_kill' =
          IF killed_after # NoItem /\ first_at_kill = NoItem
             /\ loc_idx = killed_after.c /\ page = killed_after.p
          THEN [c |-> loc_idx, p |-> shown, k |-> i] ELSE first_at_kill
    /\ UNCHANGED << hilton_state_file, hilton_json, hilton_csv, last_success_time,
                    loc_idx, page, i, start_location_idx, start_page,
                    start_hotel_idx, shown, data, save_arg, save_ret, now, kills, fails,
                    hilton_exit, hilton_raised, killed_after, stall_at,
                    stall_repeat >>
    /\ hilton_frame

\* the click or the popup fails: 'except Exception: ... continue'
hilton_item_fail ==
    /\ hilton_pc = "extract"
    /\ fails < MaxFails
    /\ fails' = fails + 1
    /\ i' = i + 1
    /\ hilton_pc' = "item"
    /\ UNCHANGED << hilton_state_file, hilton_json, hilton_csv, last_success_time,
                    loc_idx, page, start_location_idx, start_page, start_hotel_idx,
                    shown, data, save_arg, save_ret, now, kills, hilton_exit,
                    hilton_raised, killed_after, first_at_kill, stall_at,
                    stall_repeat >>
    /\ hilton_frame

\* hotel_data is built: last_success_time = time.time()
hilton_item_extract ==
    /\ hilton_pc = "extract"
    /\ last_success_time' = now
    /\ stall_at' = Missing
    /\ hilton_pc' = "csv"
    /\ UNCHANGED << hilton_state_file, hilton_json, hilton_csv, loc_idx, page, i,
                    start_location_idx, start_page, start_hotel_idx, shown, data,
                    save_arg, save_ret, now, kills, fails, hilton_exit, hilton_raised,
                    killed_after, first_at_kill, stall_repeat >>
    /\ hilton_frame

\* the row is appended to OUTPUT_FILE_CSV
hilton_csv_append ==
    /\ hilton_pc = "csv"
    /\ hilton_csv' = [kind |-> "ok",
                      rows |-> Append(hilton_csv.rows, hotel_code(loc_idx, page, i))]
    /\ hilton_pc' = "json"
    /\ UNCHANGED << hilton_state_file, hilton_json, last_success_time, loc_idx,
                    page, i, start_location_idx, start_page, start_hotel_idx,
                    shown, data, save_arg, save_ret, now, kills, fails, hilton_exit,
                    hilton_raised, killed_after, first_at_kill, stall_at,
                    stall_repeat >>
    /\ hilton_frame

\* the 'with open(OUTPUT_FILE_JSON, "r+")' block raises (the open or the dump
\* fails with an OSError): 'except Exception: ... continue', after the row
\* went to OUTPUT_FILE_CSV
hilton_json_fail ==
    /\ hilton_pc = "json"
    /\ fails < MaxFails
    /\ fails' = fails + 1
    /\ i' = i + 1
    /\ hilton_pc' = "item"
    /\ UNCHANGED << hilton_state_file, hilton_json, hilton_csv, last_success_time,
                    loc_idx, page, start_location_idx, start_page, start_hotel_idx,
                    shown, data, save_arg, save_ret, now, kills, hilton_exit,
                    hilton_raised, killed_after, first_at_kill, stall_at,
                    stall_repeat >>
    /\ hilton_frame

\* OUTPUT_FILE_JSON is opened 'r+', read back (a file json.load rejects reads
\* as []), the record appended, and the dump over the old content begins
hilton_json_open ==
    /\ hilton_pc = "json"
    /\ data' = Append(IF hilton_json.kind = "ok" THEN hilton_json.rows ELSE << >>,
                      hotel_code(loc_idx, page, i))
    /\ hilton_json' = [kind |-> "corrupt", rows |-> << >>]
    /\ hilton_pc' = "json_dump"
    /\ UNCHANGED << hilton_state_file, hilton_csv, last_success_time, loc_idx,
                    page, i, start_location_idx, start_page, start_hotel_idx,
                    shown, save_arg, save_ret, now, kills, fails, hilton_exit,
                    hilton_raised, killed_after, first_at_kill, stall_at,
                    stall_repeat >>
    /\ hilton_frame

\* the dump is complete and the file closed; save_state(loc_idx, page, i + 1)
\* is called
hilton_json_close ==
    /\ hilton_pc = "json_dump"
    /\ hilton_json' = [kind |-> "ok", rows |-> data]
    /\ data' = << >>
    /\ save_arg' = ItemCheckpoint(loc_idx, page, i)
    /\ save_ret' = "item"
    /\ hilton_pc' = "save_open"
    /\ UNCHANGED << hilton_state_file, hilton_csv, last_success_time, loc_idx,
                    page, i, start_location_idx, start_page, start_hotel_idx,
                    shown, now, kills, fails, hilton_exit, hilton_raised, killed_after,
                    first_at_kill, stall_at, stall_repeat >>
    /\ hilton_frame

\* save_state: open(STATE_FILE, "w") empties the file
save_state_open ==
    /\ hilton_pc = "save_open"
    /\ hilton_state_file' = CorruptFile
    /\ hilton_pc' = "save_dump"
    /\ UNCHANGED << hilton_json, hilton_csv, last_success_time, loc_idx, page, i,
                    start_location_idx, start_page, start_hotel_idx, shown, data,
                    save_arg, save_ret, now, kills, fails, hilton_exit, hilton_raised,
                    killed_after, first_at_kill, stall_at, stall_repeat >>
    /\ hilton_frame

\* save_state: json.dump writes the position and the file is closed
save_state_dump ==
    /\ hilton_pc = "save_dump"
    /\ hilton_state_file' =
          [kind |-> "ok",
           obj |-> StateObject(save_arg.location_idx, save_arg.page,
                               save_arg.hotel_idx)]
    /\ hilton_pc' = CASE save_ret = "item" -> "esc"
                      [] save_ret = "page" -> "refresh"
                      [] OTHER -> "loc_next"
    /\ save_ret' = "none"
    /\ save_arg' = ZeroPosition
    /\ UNCHANGED << hilton_json, hilton_csv, last_success_time, loc_idx, page, i,
                    start_location_idx, start_page, start_hotel_idx, shown, data,
                    now, kills, fails, hilton_exit, hilton_raised, killed_after,
                    first_at_kill, stall_at, stall_repeat >>
    /\ hilton_frame

\* the popup is closed (a failure is swallowed by the except) and the loop
\* moves to the next button
hilton_item_close ==
    /\ hilton_pc = "esc"
    /\ i' = i + 1
    /\ hilton_pc' = "item"
    /\ UNCHANGED << hilton_state_file, hilton_json, hilton_csv, last_success_time,
                    loc_idx, page, start_location_idx, start_page, start_hotel_idx,
                    shown, data, save_arg, save_ret, now, kills, fails, hilton_exit,
                    hilton_raised, killed_after, first_at_kill, stall_at,
                    stall_repeat >>
    /\ hilton_frame

\* the buttons of the page are exhausted
hilton_items_done ==
    /\ hilton_pc = "item"
    /\ i >= Buttons(loc_idx, shown)
    /\ hilton_pc' = "next"
    /\ UNCHANGED << hilton_state_file, hilton_json, hilton_csv, last_success_time,
                    loc_idx, page, i, start_location_idx, start_page,
                    start_hotel_idx, shown, data, save_arg, save_ret, now, kills, fails,
                    hilton_exit, hilton_raised, killed_after, first_at_kill,
                    stall_at, stall_repeat >>
    /\ hilton_frame

\* pagination-right is enabled: click, page += 1, save_state(loc_idx, page, 0)
hilton_next_page ==
    /\ hilton_pc = "next"
    /\ HasNext(loc_idx, shown)
    /\ shown' = shown + 1
    /\ page' = page + 1
    /\ save_arg' = PageCheckpoint(loc_idx, page + 1)
    /\ save_ret' = "page"
    /\ hilton_pc' = "save_open"
    /\ UNCHANGED << hilton_state_file, hilton_json, hilton_csv, last_success_time,
                    loc_idx, i, start_location_idx, start_page, start_hotel_idx,
                    data, now, kills, fails, hilton_exit, hilton_raised, killed_after,
                    first_at_kill, stall_at, stall_repeat >>
    /\ hilton_frame

\* pagination-right is absent or disabled: break, save_state(loc_idx + 1, 1, 0)
hilton_no_next_page ==
    /\ hilton_pc = "next"
    /\ ~HasNext(loc_idx, shown)
    /\ save_arg' = LocationCheckpoint(loc_idx)
    /\ save_ret' = "loc"
    /\ hilton_pc' = "save_open"
    /\ UNCHANGED << hilton_state_file, hilton_json, hilton_csv, last_success_time,
                    loc_idx, page, i, start_location_idx, start_page,
                    start_hotel_idx, shown, data, now, kills, fails, hilton_exit,
                    hilton_raised, killed_after, first_at_kill, stall_at,
                    stall_repeat >>
    /\ hilton_frame

\* periodic refresh: the reload shows the first page again, then up to
\* page - 1 clicks on pagination-right, stopping at the first that fails
hilton_refresh ==
    /\ hilton_pc = "refresh"
    /\ IF page % REFRESH_EVERY_PAGES = 0
       THEN \/ /\ shown' = Min(page, PagesOf(loc_idx))
               /\ UNCHANGED fails
            \/ /\ fails < MaxFails
               /\ fails' = fails + 1
               /\ \E reached \in 1 .. Min(page, PagesOf(loc_idx)) - 1 :
                     shown' = reached
       ELSE UNCHANGED << shown, fails >>
    /\ hilton_pc' = "page"
    /\ UNCHANGED << hilton_state_file, hilton_json, hilton_csv, last_success_time,
                    loc_idx, page, i, start_location_idx, start_page,
                    start_hotel_idx, data, save_arg, save_ret, now, kills,
                    hilton_exit, hilton_raised, killed_after, first_at_kill,
                    stall_at, stall_repeat >>
    /\ hilton_frame

\* end of the location loop body: the resume pointers are reset
hilton_next_location ==
    /\ hilton_pc = "loc_next"
    /\ IF loc_idx + 1 < NumLocations
       THEN /\ loc_idx' = loc_idx + 1
            /\ start_page' = 1
            /\ start_hotel_idx' = 0
            /\ hilton_pc' = "loc"
            /\ UNCHANGED << page, i, start_location_idx, shown, data, save_arg,
                            save_ret, hilton_exit, hilton_raised >>
       ELSE MainEnds("returned", "none")
    /\ UNCHANGED << hilton_state_file, hilton_json, hilton_csv, last_success_time,
                    now, kills, fails, killed_after, first_at_kill, stall_at,
                    stall_repeat >>
    /\ hilton_frame

\* a driver call outside the per-item try raises: the exception leaves main()
\* and the __main__ loop calls main() again
hilton_main_fails ==
    /\ hilton_pc \in {"loc", "page", "next", "refresh"}
    /\ fails < MaxFails
    /\ fails' = fails + 1
    /\ MainEnds("raised", "driver")
    /\ UNCHANGED << hilton_state_file, hilton_json, hilton_csv, last_success_time,
                    now, kills, killed_after, first_at_kill, stall_at,
                    stall_repeat >>
    /\ hilton_frame

\* the process is terminated and the script started again: the module is
\* imported anew (last_success_time = time.time()), the files stay
hilton_kill ==
    /\ kills < MaxKills
    /\ kills' = kills + 1
    /\ killed_after' = IF hilton_pc = "esc" /\ shown = page
                       THEN [c |-> loc_idx, p |-> page, k |-> i] ELSE NoItem
    /\ first_at_kill' = NoItem
    /\ last_success_time' = now
    /\ stall_at' = Missing
    /\ MainEnds("killed", "none")
    /\ UNCHANGED << hilton_state_file, hilton_json, hilton_csv, now, fails,
                    stall_repeat >>
    /\ hilton_frame

\* time passes
hilton_tick ==
    /\ hilton_pc \in {"boot", "page"}
    /\ now < MaxTicks * TickSeconds
    /\ now' = now + TickSeconds
    /\ UNCHANGED << hilton_state_file, hilton_json, hilton_csv, hilton_pc,
                    last_success_time, loc_idx, page, i, start_location_idx,
                    start_page, start_hotel_idx, shown, data, save_arg, save_ret,
                    kills, fails, hilton_exit, hilton_raised, killed_after,
                    first_at_kill, stall_at, stall_repeat >>
    /\ hilton_frame

hilton_Next ==
    \/ hilton_main_load_raises
    \/ hilton_main_begin
    \/ hilton_enter_location
    \/ hilton_stall
    \/ hilton_page_top
    \/ hilton_item_skip
    \/ hilton_item_begin
    \/ hilton_item_fail
    \/ hilton_item_extract
    \/ hilton_csv_append
    \/ hilton_json_fail
    \/ hilton_json_open
    \/ hilton_json_close
    \/ save_state_open
    \/ save_state_dump
    \/ hilton_item_close
    \/ hilton_items_done
    \/ hilton_next_page
    \/ hilton_no_next_page
    \/ hilton_refresh
    \/ hilton_next_location
    \/ hilton_main_fails
    \/ hilton_kill
    \/ hilton_tick

\* the crawl with the clock standing still (a stall ends main() as any other
\* exception raised at the top of the page loop does)
hilton_Crawl ==
    \/ hilton_main_load_raises
    \/ hilton_main_begin
    \/ hilton_enter_location
    \/ hilton_page_top
    \/ hilton_item_skip
    \/ hilton_item_begin
    \/ hilton_item_fail
    \/ hilton_item_extract
    \/ hilton_csv_append
    \/ hilton_json_fail
    \/ hilton_json_open
    \/ hilton_json_close
    \/ save_state_open
    \/ save_state_dump
    \/ hilton_item_close
    \/ hilton_items_done
    \/ hilton_next_page
    \/ hilton_no_next_page
    \/ hilton_refresh
    \/ hilton_next_location
    \/ hilton_main_fails
    \/ hilton_kill

-----------------------------------------------------------------------------
\* IHG: records and append_or_merge

\* src/scrapers/ihg.py:43
OVERWRITE == FALSE

\* Python's None (JSON null)
PyNone == "<None>"

\* a field the record does not hold
Absent == "<absent>"

\* the fields of a record: the two of the identity key and one more
Fields == {"hotel_code", "hotel_name", "phone"}

\* the values the merge treats as empty: [None, "", "null"]
Empties == {PyNone, "", "null"}

\* h.get(k)
dict_get(h, k) == IF h[k] = Absent THEN PyNone ELSE h[k]

\* the identity key (h.get("hotel_code"), h.get("hotel_name"))
key_of(h) == << dict_get(h, "hotel_code"), dict_get(h, "hotel_name") >>

\* as incoming_key, keyed by the hotel_code alone
incoming_key_code_only(h) == << dict_get(h, "hotel_code") >>

\* the key append_or_merge computes for an incoming record
incoming_key(h) == key_of(h)

\* as merge_fields, the incoming non-empty value replacing any existing one
merge_fields_overwrite(existing, h) ==
    [ k \in Fields |->
        IF h[k] # Absent /\ h[k] \notin Empties THEN h[k] ELSE existing[k] ]

\* merged = dict(existing); for k, v in h.items(): fill merged[k] with v when
\* merged.get(k) is empty and v is not
merge_fields(existing, h) ==
    [ k \in Fields |->
        IF h[k] # Absent /\ dict_get(existing, k) \in Empties
           /\ h[k] \notin Empties
        THEN h[k] ELSE existing[k] ]

\* a dict in insertion order: a sequence of [key, val] with distinct keys
HasKey(m, key) == \E n \in 1 .. Len(m) : m[n].key = key

IndexOf(m, key) == CHOOSE n \in 1 .. Len(m) : m[n].key = key

\* as DictSet, adding an entry even when the key is present
DictSetAppend(m, key, val) == Append(m, [key |-> key, val |-> val])

\* m[key] = val
DictSet(m, key, val) ==
    IF HasKey(m, key)
    THEN [m EXCEPT ![IndexOf(m, key)].val = val]
    ELSE Append(m, [key |-> key, val |-> val])

\* list(m.values())
Values(m) == [n \in 1 .. Len(m) |-> m[n].val]

RECURSIVE MapFrom(_, _)
\* the entries of records[1 .. n] set one after the other
MapFrom(records, n) ==
    IF n = 0 THEN << >>
    ELSE DictSet(MapFrom(records, n - 1), key_of(records[n]), records[n])

\* {(h.get('hotel_code'), h.get('hotel_name')): h for h in records}
MapOfList(records) == MapFrom(records, Len(records))

\* as merge_one, without the branch for a key that is present: the incoming
\* record replaces the entry
merge_one_replace(result_map, h) == DictSet(result_map, incoming_key(h), h)

\* one turn of the loop of append_or_merge
merge_one(result_map, h) ==
    LET key == incoming_key(h)
    IN  IF HasKey(result_map, key) /\ ~OVERWRITE
        THEN DictSet(result_map, key,
                     merge_fields(result_map[IndexOf(result_map, key)].val, h))
        ELSE DictSet(result_map, key, h)

RECURSIVE merge_loop(_, _, _)
\* the loop over hotels[1 .. n]
merge_loop(hotels, existing_map, n) ==
    IF n = 0 THEN existing_map
    ELSE merge_one(merge_loop(hotels, existing_map, n - 1), hotels[n])

append_or_merge(hotels, existing_map) ==
    Values(merge_loop(hotels, existing_map, Len(hotels)))

\* the records the merge is tried on
Records ==
    [ hotel_code : {"H1", PyNone, Absent},
      hotel_name : {"N1"},
      phone : {Absent, PyNone, "", "null", "555", "777"} ]

\* the lists of at most n records
ListsUpTo(n) == UNION { [1 .. len -> Records] : len \in 0 .. n }

UniqueKeys(records) ==
    \A a, b \in 1 .. Len(records) :
        a # b => key_of(records[a]) # key_of(records[b])

merge_Idle ==
    /\ merge_pc = "idle"
    /\ merge_existing = << >>
    /\ merge_hotels = << >>
    /\ merge_result = << >>

\* a record set with distinct keys and an incoming list
merge_Init ==
    /\ merge_pc = "input"
    /\ merge_existing \in { l \in ListsUpTo(MaxExisting) : UniqueKeys(l) }
    /\ merge_hotels \in ListsUpTo(MaxIncoming)
    /\ merge_result = << >>

\* merged = append_or_merge(hotels, {key: h for h in all_hotels})
merge_call ==
    /\ merge_pc = "input"
    /\ merge_result' = append_or_merge(merge_hotels, MapOfList(merge_existing))
    /\ merge_pc' = "done"
    /\ UNCHANGED << merge_existing, merge_hotels >>
    /\ merge_frame

-----------------------------------------------------------------------------
\* IHG: the retry decorator

\* the classes of the except clause of retryable
RetriedClasses ==
    { "TimeoutException", "WebDriverException",
      "StaleElementReferenceException", "ElementClickInterceptedException" }

\* exceptions the except clause does not name
OtherClasses == { "ValueError" }

\* an exception object: its class and the call of fn that raised it
Exc(cls, call) == [cls |-> cls, call |-> call]

\* last_exc = None
NoExc == Exc("None", 0)

\* as caught, keeping the first exception caught
caught_first(prev, e) == IF prev = NoExc THEN e ELSE prev

\* last_exc = e
caught(prev, e) == e

\* base = min(10, 2 ** try_idx)
backoff_base(try_idx) == Min(10, 2 ^ try_idx)

retry_Idle ==
    /\ retry_pc = "idle"
    /\ max_retries = 0
    /\ attempt = 0
    /\ last_exc = NoExc
    /\ retry_calls = << >>
    /\ retry_raised = NoExc
    /\ retry_slept = 0

\* wrapper(self, ...) is entered: last_exc = None
retry_Init ==
    /\ retry_pc = "loop"
    /\ max_retries \in 0 .. MaxRetries
    /\ attempt = 0
    /\ last_exc = NoExc
    /\ retry_calls = << >>
    /\ retry_raised = NoExc
    /\ retry_slept = 0

\* fn raises one of the retried classes: last_exc = e
retry_call_caught ==
    /\ retry_pc = "loop"
    /\ attempt < max_retries
    /\ \E cls \in RetriedClasses :
          LET e == Exc(cls, Len(retry_calls) + 1)
          IN  /\ retry_calls' = Append(retry_calls, e)
              /\ last_exc' = caught(last_exc, e)
    /\ retry_pc' = "backoff"
    /\ UNCHANGED << max_retries, attempt, retry_raised, retry_slept >>
    /\ retry_frame

\* fn raises another class: the exception leaves the wrapper at once
retry_call_escapes ==
    /\ retry_pc = "loop"
    /\ attempt < max_retries
    /\ \E cls \in OtherClasses :
          LET e == Exc(cls, Len(retry_calls) + 1)
          IN  /\ retry_calls' = Append(retry_calls, e)
              /\ retry_raised' = e
    /\ retry_pc' = "raised"
    /\ UNCHANGED << max_retries, attempt, last_exc, retry_slept >>
    /\ retry_frame

\* fn returns
retry_call_returns ==
    /\ retry_pc = "loop"
    /\ attempt < max_retries
    /\ retry_calls' = Append(retry_calls, NoExc)
    /\ retry_pc' = "returned"
    /\ UNCHANGED << max_retries, attempt, last_exc, retry_raised, retry_slept >>
    /\ retry_frame

\* the soft refresh (its own failure is swallowed) and backoff_sleep(attempt)
retry_backoff ==
    /\ retry_pc = "backoff"
    /\ retry_slept' = retry_slept + backoff_base(attempt)
    /\ attempt' = attempt + 1
    /\ retry_pc' = "loop"
    /\ UNCHANGED << max_retries, last_exc, retry_calls, retry_raised >>
    /\ retry_frame

\* range(max_retries) is exhausted: raise last_exc ('raise None' is a
\* TypeError)
retry_exhausted ==
    /\ retry_pc = "loop"
    /\ attempt >= max_retries
    /\ retry_raised' = IF last_exc = NoExc THEN Exc("TypeError", 0) ELSE last_exc
    /\ retry_pc' = "raised"
    /\ UNCHANGED << max_retries, attempt, last_exc, retry_calls, retry_slept >>
    /\ retry_frame

retry_Next ==
    \/ retry_call_caught
    \/ retry_call_escapes
    \/ retry_call_returns
    \/ retry_backoff
    \/ retry_exhausted

-----------------------------------------------------------------------------
\* Hilton: retry_action

\* what a step of retry_action leaves alone
retry_action_frame ==
    UNCHANGED << hilton_vars, merge_vars, retry_vars, ihg_vars, hyatt_vars,
                 hilton_history_vars, ihg_start_vars, marriott_vars,
                 load_vars,
                 parallel_vars >>

\* the classes action can raise: 'except Exception' catches each of them
ActionClasses == RetriedClasses \cup OtherClasses

\* Exception("Max retries exceeded"), made by retry_action itself
MaxRetriesExceeded == Exc("Exception: Max retries exceeded", 0)

\* what retry_action raises when the loop is over
exhausted_exception(calls) == MaxRetriesExceeded

retry_action_Idle ==
    /\ retry_action_pc = "idle"
    /\ retries = 0
    /\ retry_action_i = 0
    /\ action_calls = << >>
    /\ retry_action_raised = NoExc

\* retry_action(action, retries) is entered
retry_action_Init ==
    /\ retry_action_pc = "loop"
    /\ retries \in 1 .. MaxRetries
    /\ retry_action_i = 0
    /\ action_calls = << >>
    /\ retry_action_raised = NoExc

\* action() raises: except Exception as e: print, time.sleep(delay)
retry_action_call_fails ==
    /\ retry_action_pc = "loop"
    /\ retry_action_i < retries
    /\ \E cls \in ActionClasses :
          action_calls' = Append(action_calls, Exc(cls, Len(action_calls) + 1))
    /\ retry_action_i' = retry_action_i + 1
    /\ UNCHANGED << retry_action_pc, retries, retry_action_raised >>
    /\ retry_action_frame

\* return action()
retry_action_call_returns ==
    /\ retry_action_pc = "loop"
    /\ retry_action_i < retries
    /\ action_calls' = Append(action_calls, NoExc)
    /\ retry_action_pc' = "returned"
    /\ UNCHANGED << retries, retry_action_i, retry_action_raised >>
    /\ retry_action_frame

\* range(retries) is exhausted: raise Exception("Max retries exceeded")
retry_action_exhausted ==
    /\ retry_action_pc = "loop"
    /\ retry_action_i >= retries
    /\ retry_action_raised' = exhausted_exception(action_calls)
    /\ retry_action_pc' = "raised"
    /\ UNCHANGED << retries, retry_action_i, action_calls >>
    /\ retry_action_frame

retry_action_Next ==
    \/ retry_action_call_fails
    \/ retry_action_call_returns
    \/ retry_action_exhausted

-----------------------------------------------------------------------------
\* IHG: the crawl of ihg.main

\* src/scrapers/ihg.py:45
SAVE_EVERY_N_CITIES == 10

\* src/scrapers/ihg.py:42
RUN_ONLY_ONE_CITY == FALSE

\* @retryable(max_retries=3) on scrape_city
SCRAPE_CITY_RETRIES == 3

\* json.dump of one value: None is written as null, a string in quotes; a
\* key the dict does not hold is not written
json_value(v) ==
    IF v = Absent THEN [t |-> "absent", s |-> ""]
    ELSE IF v = PyNone THEN [t |-> "null", s |-> ""]
    ELSE [t |-> "string", s |-> v]

\* json.load of one value
py_value(j) ==
    IF j.t = "absent" THEN Absent
    ELSE IF j.t = "null" THEN PyNone
    ELSE j.s

\* json.dump(records, f)
json_dump(records) ==
    [ n \in 1 .. Len(records) |-> [ k \in Fields |-> json_value(records[n][k]) ] ]

\* json.load(f)
json_load(rows) ==
    [ n \in 1 .. Len(rows) |-> [ k \in Fields |-> py_value(rows[n][k]) ] ]

\* row = {k: r.get(k) for k in FIELDS}; the csv writer writes None as ""
csv_row(r) ==
    [ k \in Fields |-> IF dict_get(r, k) = PyNone THEN "" ELSE dict_get(r, k) ]

csv_rows(records) == [ n \in 1 .. Len(records) |-> csv_row(records[n]) ]

\* the default state of CheckpointManager
ZeroCheckpoint == [city_index |-> 0, hotel_index |-> 0]

\* a file that is not there; one that was opened for writing and not written
NoFile == [kind |-> "absent", rows |-> << >>]

TruncatedFile == [kind |-> "corrupt", rows |-> << >>]

\* CHECKPOINT_JSON: obj is what the file holds when kind is "ok", a JSON
\* object with the two position fields as integers
NoCheckpointFile == [kind |-> "absent", obj |-> ZeroCheckpoint]

TruncatedCheckpointFile == [kind |-> "corrupt", obj |-> ZeroCheckpoint]

\* valid JSON of another shape: a document that is not an object ([], null,
\* 3), the object {}, an object whose position fields are strings
ArrayCheckpointFile == [kind |-> "array", obj |-> ZeroCheckpoint]

EmptyObjectCheckpointFile == [kind |-> "empty_object", obj |-> ZeroCheckpoint]

StringsCheckpointFile == [kind |-> "strings", obj |-> ZeroCheckpoint]

\* json.load raises on the file, or the file is not there: _load keeps the
\* default state
LoadFails(file) == file.kind \in {"absent", "corrupt"}

\* checkpoint.state.get(..., 0) on what _load left in self.state, and the
\* comparison of the loop with the value got: a list has no get, a str does
\* not compare with an int
StartReadable(file) ==
    LoadFails(file) \/ file.kind \in {"ok", "empty_object"}

\* CheckpointManager.__init__ and _load, read through get(key, 0): a failed
\* read keeps the default, a key that is absent reads as 0
CheckpointManager_load(file) ==
    IF file.kind = "ok" THEN file.obj ELSE ZeroCheckpoint

\* load_existing_output: a failed read gives the empty map
load_existing_output(file) ==
    IF file.kind = "ok" /\ ~OVERWRITE
    THEN MapOfList(json_load(file.rows))
    ELSE << >>

\* the cards the list page of a city shows: [hotel_code, hotel_name], the
\* code None when the card has no link
CityCards(c) ==
    IF c % 2 = 0
    THEN << [hotel_code |-> "H1", hotel_name |-> "N1"],
            [hotel_code |-> PyNone, hotel_name |-> "N1"] >>
    ELSE << [hotel_code |-> "H1", hotel_name |-> "N2"],
            [hotel_code |-> "H1", hotel_name |-> "N1"] >>

\* a card raised one of the exceptions caught per card
Skipped == "<skip>"

\* what happens to a card: it is skipped, or its detail page gives a phone or
\* none
CardOutcomes == { Skipped, PyNone, "555" }

\* hotel_record after hotel_record.update(detail)
hotel_record(card, phone) ==
    [hotel_code |-> card.hotel_code, hotel_name |-> card.hotel_name,
     phone |-> phone]

RECURSIVE scrape_cards(_, _, _, _)
\* the loop over cards[1 .. n] of scrape_city
scrape_cards(cards, outcome, resume_hotel_index, n) ==
    IF n = 0 THEN << >>
    ELSE LET rest == scrape_cards(cards, outcome, resume_hotel_index, n - 1)
         IN  IF n - 1 < resume_hotel_index \/ outcome[n] = Skipped
             THEN rest
             ELSE Append(rest, hotel_record(cards[n], outcome[n]))

\* the lists scrape_city can return for a city
scrape_city(c, resume_hotel_index) ==
    { scrape_cards(CityCards(c), outcome, resume_hotel_index,
                   Len(CityCards(c))) :
        outcome \in [ 1 .. Len(CityCards(c)) -> CardOutcomes ] }

\* global_city_index
global_city_index(idx, start) ==
    IF RUN_ONLY_ONE_CITY THEN start + idx ELSE idx

\* the process is not running: what it held in memory is gone
ihg_NoProcess ==
    /\ ihg_pc' = "off"
    /\ ihg_ret' = "off"
    /\ checkpoint_state' = ZeroCheckpoint
    /\ all_hotels' = << >>
    /\ ihg_hotels' = << >>
    /\ city_i' = 0
    /\ start_city_idx' = 0
    /\ ihg_start_hotel_idx' = 0
    /\ scrape_attempt' = 0
    /\ processed_cities_since_save' = 0
    /\ ihg_rescrape' = FALSE

ihg_InitWith(file) ==
    /\ checkpoint_json = file
    /\ ihg_started_from = NoCheckpointFile
    /\ ihg_start_raised = FALSE
    /\ hotel_json = NoFile
    /\ hotel_csv = NoFile
    /\ ihg_pc = "off"
    /\ ihg_ret = "off"
    /\ checkpoint_state = ZeroCheckpoint
    /\ all_hotels = << >>
    /\ ihg_hotels = << >>
    /\ city_i = 0
    /\ start_city_idx = 0
    /\ ihg_start_hotel_idx = 0
    /\ scrape_attempt = 0
    /\ processed_cities_since_save = 0
    /\ ihg_runs = 0
    /\ ihg_scraped = {}
    /\ ihg_rescrape = FALSE
    /\ ihg_failed = FALSE

ihg_Init == ihg_InitWith(NoCheckpointFile)

\* main up to the loop: the checkpoint and the existing output are loaded
ihg_main_begin ==
    /\ ihg_pc = "off"
    /\ ihg_runs < MaxRuns
    /\ StartReadable(checkpoint_json)
    /\ ihg_runs' = ihg_runs + 1
    /\ LET state == CheckpointManager_load(checkpoint_json)
       IN  /\ checkpoint_state' = state
           /\ start_city_idx' = state.city_index
           /\ ihg_start_hotel_idx' = state.hotel_index
    /\ all_hotels' = Values(load_existing_output(hotel_json))
    /\ processed_cities_since_save' = 0
    /\ city_i' = 0
    /\ ihg_pc' = "city"
    /\ UNCHANGED << checkpoint_json, hotel_json, hotel_csv, ihg_ret, ihg_hotels,
                    scrape_attempt, ihg_scraped, ihg_rescrape, ihg_failed >>
    /\ ihg_frame

\* main on a checkpoint whose JSON is not an object with integer fields:
\* checkpoint.state.get raises AttributeError, or the first comparison with
\* start_city_idx raises TypeError; finally: hotel_scraper.quit(), and the
\* exception leaves main and ends the process
ihg_main_begin_raises ==
    /\ ihg_pc = "off"
    /\ ihg_runs < MaxRuns
    /\ ~StartReadable(checkpoint_json)
    /\ ihg_runs' = ihg_runs + 1
    /\ ihg_started_from' = checkpoint_json
    /\ ihg_start_raised' = TRUE
    /\ ihg_NoProcess
    /\ UNCHANGED << checkpoint_json, hotel_json, hotel_csv, ihg_scraped,
                    ihg_failed >>
    /\ ihg_others

\* if global_city_index < start_city_idx: continue
ihg_city_skip ==
    /\ ihg_pc = "city"
    /\ city_i < NumCities
    /\ global_city_index(city_i, start_city_idx) < start_city_idx
    /\ city_i' = city_i + 1
    /\ UNCHANGED << checkpoint_json, hotel_json, hotel_csv, ihg_pc, ihg_ret,
                    checkpoint_state, all_hotels, ihg_hotels, start_city_idx,
                    ihg_start_hotel_idx, scrape_attempt,
                    processed_cities_since_save, ihg_runs, ihg_scraped,
                    ihg_rescrape, ihg_failed >>
    /\ ihg_frame

\* checkpoint.set_city(global_city_index), up to its save
ihg_set_city ==
    /\ ihg_pc = "city"
    /\ city_i < NumCities
    /\ global_city_index(city_i, start_city_idx) >= start_city_idx
    /\ checkpoint_state' =
          [city_index |-> global_city_index(city_i, start_city_idx),
           hotel_index |-> 0]
    /\ scrape_attempt' = 0
    /\ ihg_pc' = "checkpoint_open"
    /\ ihg_ret' = "scrape"
    /\ UNCHANGED << checkpoint_json, hotel_json, hotel_csv, all_hotels, ihg_hotels,
                    city_i, start_city_idx, ihg_start_hotel_idx,
                    processed_cities_since_save, ihg_runs, ihg_scraped,
                    ihg_rescrape, ihg_failed >>
    /\ ihg_frame

\* CheckpointManager.save: open(self.path, "w") empties the file
checkpoint_save_open ==
    /\ ihg_pc = "checkpoint_open"
    /\ checkpoint_json' = TruncatedCheckpointFile
    /\ ihg_pc' = "checkpoint_dump"
    /\ UNCHANGED << hotel_json, hotel_csv, ihg_ret, checkpoint_state,
                    all_hotels, ihg_hotels, city_i, start_city_idx,
                    ihg_start_hotel_idx, scrape_attempt,
                    processed_cities_since_save, ihg_runs, ihg_scraped,
                    ihg_rescrape, ihg_failed >>
    /\ ihg_frame

\* CheckpointManager.save: json.dump(self.state, f)
checkpoint_save_dump ==
    /\ ihg_pc = "checkpoint_dump"
    /\ checkpoint_json' = [kind |-> "ok", obj |-> checkpoint_state]
    /\ ihg_pc' = ihg_ret
    /\ UNCHANGED << hotel_json, hotel_csv, ihg_ret, checkpoint_state,
                    all_hotels, ihg_hotels, city_i, start_city_idx,
                    ihg_start_hotel_idx, scrape_attempt,
                    processed_cities_since_save, ihg_runs, ihg_scraped,
                    ihg_rescrape, ihg_failed >>
    /\ ihg_frame

\* resume_hotel_index
resume_hotel_index ==
    IF global_city_index(city_i, start_city_idx) = start_city_idx
    THEN ihg_start_hotel_idx ELSE 0

\* an attempt of scrape_city returns its hotels
ihg_scrape_city_returns ==
    /\ ihg_pc = "scrape"
    /\ scrape_attempt < SCRAPE_CITY_RETRIES
    /\ \E result \in scrape_city(city_i, resume_hotel_index) :
          /\ ihg_hotels' = result
          /\ ihg_rescrape' = (city_i \in ihg_scraped /\ result # << >>)
    /\ ihg_pc' = "set_hotel"
    /\ UNCHANGED << checkpoint_json, hotel_json, hotel_csv, ihg_ret,
                    checkpoint_state, all_hotels, city_i, start_city_idx,
                    ihg_start_hotel_idx, scrape_attempt,
                    processed_cities_since_save, ihg_runs, ihg_scraped,
                    ihg_failed >>
    /\ ihg_frame

\* an attempt of scrape_city raises a retried class and another attempt
\* follows the refresh and the backoff
ihg_scrape_city_retried ==
    /\ ihg_pc = "scrape"
    /\ scrape_attempt + 1 < SCRAPE_CITY_RETRIES
    /\ scrape_attempt' = scrape_attempt + 1
    /\ UNCHANGED << checkpoint_json, hotel_json, hotel_csv, ihg_pc, ihg_ret,
                    checkpoint_state, all_hotels, ihg_hotels, city_i,
                    start_city_idx, ihg_start_hotel_idx,
                    processed_cities_since_save, ihg_runs, ihg_scraped,
                    ihg_rescrape, ihg_failed >>
    /\ ihg_frame

\* as ihg_scrape_city_exhausted, with 'all_hotels = []' in the except branch
ihg_scrape_city_exhausted_forgets ==
    /\ ihg_pc = "scrape"
    /\ scrape_attempt + 1 = SCRAPE_CITY_RETRIES
    /\ scrape_attempt' = SCRAPE_CITY_RETRIES
    /\ ihg_hotels' = << >>
    /\ all_hotels' = << >>
    /\ ihg_rescrape' = FALSE
    /\ ihg_failed' = TRUE
    /\ ihg_pc' = "set_hotel"
    /\ UNCHANGED << checkpoint_json, hotel_json, hotel_csv, ihg_ret,
                    checkpoint_state, city_i, start_city_idx,
                    ihg_start_hotel_idx, processed_cities_since_save,
                    ihg_runs, ihg_scraped >>
    /\ ihg_frame

\* the last attempt of scrape_city raises a retried class: range(max_retries)
\* is exhausted, the wrapper raises last_exc to main: except Exception:
\* hotels = []
ihg_scrape_city_exhausted ==
    /\ ihg_pc = "scrape"
    /\ scrape_attempt + 1 = SCRAPE_CITY_RETRIES
    /\ scrape_attempt' = SCRAPE_CITY_RETRIES
    /\ ihg_hotels' = << >>
    /\ ihg_rescrape' = FALSE
    /\ ihg_failed' = TRUE
    /\ ihg_pc' = "set_hotel"
    /\ UNCHANGED << checkpoint_json, hotel_json, hotel_csv, ihg_ret,
                    checkpoint_state, all_hotels, city_i, start_city_idx,
                    ihg_start_hotel_idx, processed_cities_since_save,
                    ihg_runs, ihg_scraped >>
    /\ ihg_frame

\* scrape_city raises a class that is not retried, at any attempt: except
\* Exception: hotels = []
ihg_scrape_city_raises ==
    /\ ihg_pc = "scrape"
    /\ scrape_attempt < SCRAPE_CITY_RETRIES
    /\ ihg_hotels' = << >>
    /\ ihg_rescrape' = FALSE
    /\ ihg_failed' = TRUE
    /\ ihg_pc' = "set_hotel"
    /\ UNCHANGED << checkpoint_json, hotel_json, hotel_csv, ihg_ret,
                    checkpoint_state, all_hotels, city_i, start_city_idx,
                    ihg_start_hotel_idx, scrape_attempt,
                    processed_cities_since_save, ihg_runs, ihg_scraped >>
    /\ ihg_frame

\* checkpoint.set_hotel(0), up to its save
ihg_set_hotel ==
    /\ ihg_pc = "set_hotel"
    /\ checkpoint_state' = [checkpoint_state EXCEPT !.hotel_index = 0]
    /\ ihg_pc' = "checkpoint_open"
    /\ ihg_ret' = "merge"
    /\ UNCHANGED << checkpoint_json, hotel_json, hotel_csv, all_hotels, ihg_hotels,
                    city_i, start_city_idx, ihg_start_hotel_idx,
                    scrape_attempt, processed_cities_since_save, ihg_runs,
                    ihg_scraped, ihg_rescrape, ihg_failed >>
    /\ ihg_frame

\* where save_outputs(records) starts: 'if not records: return'
save_outputs_entry(records, ret) ==
    IF records = << >> THEN ret ELSE "json_open"

\* merged = append_or_merge(hotels, {...}); all_hotels = merged; save_outputs
\* is entered
ihg_merge ==
    /\ ihg_pc = "merge"
    /\ LET merged == append_or_merge(ihg_hotels, MapOfList(all_hotels))
       IN  /\ all_hotels' = merged
           /\ ihg_pc' = save_outputs_entry(merged, "saved")
    /\ ihg_ret' = "saved"
    /\ UNCHANGED << checkpoint_json, hotel_json, hotel_csv, checkpoint_state,
                    ihg_hotels, city_i, start_city_idx, ihg_start_hotel_idx,
                    scrape_attempt, processed_cities_since_save, ihg_runs,
                    ihg_scraped, ihg_rescrape, ihg_failed >>
    /\ ihg_frame

\* save_outputs: open(HOTEL_JSON, "w") empties the file
save_outputs_json_open ==
    /\ ihg_pc = "json_open"
    /\ hotel_json' = TruncatedFile
    /\ ihg_pc' = "json_dump"
    /\ UNCHANGED << checkpoint_json, hotel_csv, ihg_ret, checkpoint_state,
                    all_hotels, ihg_hotels, city_i, start_city_idx,
                    ihg_start_hotel_idx, scrape_attempt,
                    processed_cities_since_save, ihg_runs, ihg_scraped,
                    ihg_rescrape, ihg_failed >>
    /\ ihg_frame

\* save_outputs: json.dump(records, f)
save_outputs_json_dump ==
    /\ ihg_pc = "json_dump"
    /\ hotel_json' = [kind |-> "ok", rows |-> json_dump(all_hotels)]
    /\ ihg_scraped' = IF ihg_hotels # << >> /\ city_i < NumCities
                      THEN ihg_scraped \cup {city_i} ELSE ihg_scraped
    /\ ihg_pc' = "csv_open"
    /\ UNCHANGED << checkpoint_json, hotel_csv, ihg_ret, checkpoint_state,
                    all_hotels, ihg_hotels, city_i, start_city_idx,
                    ihg_start_hotel_idx, scrape_attempt,
                    processed_cities_since_save, ihg_runs, ihg_rescrape,
                    ihg_failed >>
    /\ ihg_frame

\* save_outputs: open(HOTEL_CSV, "w") empties the file
save_outputs_csv_open ==
    /\ ihg_pc = "csv_open"
    /\ hotel_csv' = TruncatedFile
    /\ ihg_pc' = "csv_write"
    /\ UNCHANGED << checkpoint_json, hotel_json, ihg_ret, checkpoint_state,
                    all_hotels, ihg_hotels, city_i, start_city_idx,
                    ihg_start_hotel_idx, scrape_attempt,
                    processed_cities_since_save, ihg_runs, ihg_scraped,
                    ihg_rescrape, ihg_failed >>
    /\ ihg_frame

\* save_outputs: the header and one row per record
save_outputs_csv_write ==
    /\ ihg_pc = "csv_write"
    /\ hotel_csv' = [kind |-> "ok", rows |-> csv_rows(all_hotels)]
    /\ ihg_pc' = ihg_ret
    /\ UNCHANGED << checkpoint_json, hotel_json, ihg_ret, checkpoint_state,
                    all_hotels, ihg_hotels, city_i, start_city_idx,
                    ihg_start_hotel_idx, scrape_attempt,
                    processed_cities_since_save, ihg_runs, ihg_scraped,
                    ihg_rescrape, ihg_failed >>
    /\ ihg_frame

\* processed_cities_since_save += 1 and the save of every
\* SAVE_EVERY_N_CITIES cities
ihg_city_saved ==
    /\ ihg_pc = "saved"
    /\ IF processed_cities_since_save + 1 >= SAVE_EVERY_N_CITIES
       THEN /\ processed_cities_since_save' = 0
            /\ ihg_pc' = save_outputs_entry(all_hotels, "restart")
       ELSE /\ processed_cities_since_save' = processed_cities_since_save + 1
            /\ ihg_pc' = "restart"
    /\ ihg_ret' = "restart"
    /\ UNCHANGED << checkpoint_json, hotel_json, hotel_csv, checkpoint_state,
                    all_hotels, ihg_hotels, city_i, start_city_idx,
                    ihg_start_hotel_idx, scrape_attempt, ihg_runs,
                    ihg_scraped, ihg_rescrape, ihg_failed >>
    /\ ihg_frame

\* hotel_scraper.restart_browser and the next turn of the loop
ihg_restart_browser ==
    /\ ihg_pc = "restart"
    /\ city_i' = city_i + 1
    /\ ihg_hotels' = << >>
    /\ ihg_rescrape' = FALSE
    /\ ihg_pc' = "city"
    /\ UNCHANGED << checkpoint_json, hotel_json, hotel_csv, ihg_ret,
                    checkpoint_state, all_hotels, start_city_idx,
                    ihg_start_hotel_idx, scrape_attempt,
                    processed_cities_since_save, ihg_runs, ihg_scraped,
                    ihg_failed >>
    /\ ihg_frame

\* the loop is over: checkpoint.clear(), up to its save
ihg_clear ==
    /\ ihg_pc = "city"
    /\ city_i = NumCities
    /\ checkpoint_state' = ZeroCheckpoint
    /\ ihg_pc' = "checkpoint_open"
    /\ ihg_ret' = "quit"
    /\ UNCHANGED << checkpoint_json, hotel_json, hotel_csv, all_hotels, ihg_hotels,
                    city_i, start_city_idx, ihg_start_hotel_idx,
                    scrape_attempt, processed_cities_since_save, ihg_runs,
                    ihg_scraped, ihg_rescrape, ihg_failed >>
    /\ ihg_frame

\* finally: hotel_scraper.quit(); main returns and the process ends
ihg_main_returns ==
    /\ ihg_pc = "quit"
    /\ ihg_NoProcess
    /\ UNCHANGED << checkpoint_json, hotel_json, hotel_csv, ihg_runs,
                    ihg_scraped, ihg_failed >>
    /\ ihg_frame

\* the process is terminated at any point
ihg_kill ==
    /\ ihg_pc # "off"
    /\ ihg_NoProcess
    /\ UNCHANGED << checkpoint_json, hotel_json, hotel_csv, ihg_runs,
                    ihg_scraped, ihg_failed >>
    /\ ihg_frame

ihg_Next ==
    \/ ihg_main_begin
    \/ ihg_city_skip
    \/ ihg_set_city
    \/ checkpoint_save_open
    \/ checkpoint_save_dump
    \/ ihg_scrape_city_returns
    \/ ihg_scrape_city_retried
    \/ ihg_scrape_city_exhausted
    \/ ihg_scrape_city_raises
    \/ ihg_set_hotel
    \/ ihg_merge
    \/ save_outputs_json_open
    \/ save_outputs_json_dump
    \/ save_outputs_csv_open
    \/ save_outputs_csv_write
    \/ ihg_city_saved
    \/ ihg_restart_browser
    \/ ihg_clear
    \/ ihg_main_returns
    \/ ihg_kill

-----------------------------------------------------------------------------
\* Hyatt: the crawl of hyatt.main

\* the checkpoint file of hyatt.py: absent, emptied by open(path, "w"), or
\* holding {"last_hotel_index": idx}
HyattNoCheckpoint == [kind |-> "absent", idx |-> 0]

HyattTruncatedCheckpoint == [kind |-> "corrupt", idx |-> 0]

HyattCheckpoint(idx) == [kind |-> "ok", idx |-> idx]

\* Checkpoint.__init__ and load: a failed read keeps index 0
Checkpoint_load(file) == IF file.kind = "ok" THEN file.idx ELSE 0

\* hotel_url of the card at index n of the list; the card at index 2 lists
\* the hotel of the first card again
HyattUrl(n) == IF n = 2 THEN 1 ELSE n + 1

\* record: the card's URL stands for the record
HyattRecord(n) == [hotel_url |-> HyattUrl(n)]

\* as UrlsOf, with 'scraped_urls = set()': the loaded records are not looked at
UrlsOfNothing(existing) == {}

\* {h["hotel_url"] for h in existing if h.get("hotel_url")}
UrlsOf(existing) == { existing[n].hotel_url : n \in 1 .. Len(existing) }

\* the cards listed after a number of 'show more' clicks
CardsAfter(listed) == Min(NumHyattCards, listed + HyattBatch)

\* what main holds in memory is gone
hyatt_NoProcess ==
    /\ hyatt_pc' = "off"
    /\ hyatt_ret' = "off"
    /\ checkpoint_index' = 0
    /\ results' = << >>
    /\ scraped_urls' = {}
    /\ hotel_index' = 0
    /\ total_cards' = 0
    /\ shown_cards' = 0

hyatt_InitList ==
    /\ hyatt_checkpoint_json = HyattNoCheckpoint
    /\ hyatt_json = NoFile
    /\ hyatt_csv = NoFile
    /\ hyatt_pc = "off"
    /\ hyatt_ret = "off"
    /\ checkpoint_index = 0
    /\ results = << >>
    /\ scraped_urls = {}
    /\ hotel_index = 0
    /\ total_cards = 0
    /\ shown_cards = 0
    /\ hyatt_runs = 0
    /\ hyatt_fails = 0
    /\ hyatt_exit = "none"
    /\ hyatt_at_raise = HyattNoCheckpoint
    /\ hyatt_loaded = {}
    /\ hyatt_attempts = 0

\* the list as the site serves it: every card has the selected elements
hyatt_Init == hyatt_InitList /\ hyatt_broken = {}

\* main up to the try: the checkpoint and the existing output are loaded, the
\* start page is opened
hyatt_main_begin ==
    /\ hyatt_pc = "off"
    /\ hyatt_runs < MaxHyattRuns
    /\ hyatt_json.kind # "corrupt"
    /\ hyatt_runs' = hyatt_runs + 1
    /\ checkpoint_index' = Checkpoint_load(hyatt_checkpoint_json)
    /\ results' = hyatt_json.rows
    /\ scraped_urls' = UrlsOf(hyatt_json.rows)
    /\ hotel_index' = 0
    /\ total_cards' = 0
    /\ shown_cards' = CardsAfter(0)
    /\ hyatt_exit' = "running"
    /\ hyatt_pc' = "cards"
    /\ UNCHANGED << hyatt_checkpoint_json, hyatt_json, hyatt_csv, hyatt_ret,
                    hyatt_fails, hyatt_at_raise >>
    /\ hyatt_frame

\* existing = json.load(f) raises on an output file that is not JSON: the
\* exception leaves main before the try, and the process ends
hyatt_main_load_raises ==
    /\ hyatt_pc = "off"
    /\ hyatt_runs < MaxHyattRuns
    /\ hyatt_json.kind = "corrupt"
    /\ hyatt_runs' = hyatt_runs + 1
    /\ hyatt_exit' = "load_raised"
    /\ UNCHANGED << hyatt_checkpoint_json, hyatt_json, hyatt_csv, hyatt_pc,
                    hyatt_ret, checkpoint_index, results, scraped_urls,
                    hotel_index, total_cards, shown_cards, hyatt_fails,
                    hyatt_at_raise >>
    /\ hyatt_frame

\* cards = driver.find_elements(...); total_cards = len(cards)
hyatt_find_cards ==
    /\ hyatt_pc = "cards"
    /\ total_cards' = shown_cards
    /\ hyatt_pc' = "card"
    /\ UNCHANGED << hyatt_checkpoint_json, hyatt_json, hyatt_csv, hyatt_ret,
                    checkpoint_index, results, scraped_urls, hotel_index,
                    shown_cards, hyatt_runs, hyatt_fails, hyatt_exit,
                    hyatt_at_raise >>
    /\ hyatt_frame

\* the card raises Stale/NoSuchElement: the cards are found again and the
\* same index is tried again
hyatt_card_stale ==
    /\ hyatt_pc = "card"
    /\ hotel_index < total_cards
    /\ hyatt_fails < MaxHyattFails
    /\ hyatt_fails' = hyatt_fails + 1
    /\ UNCHANGED << hyatt_checkpoint_json, hyatt_json, hyatt_csv, hyatt_pc,
                    hyatt_ret, checkpoint_index, results, scraped_urls,
                    hotel_index, total_cards, shown_cards, hyatt_runs,
                    hyatt_exit, hyatt_at_raise >>
    /\ hyatt_frame

\* the card has no SEL_NAME (or SEL_ADDR1, SEL_ADDR2) element: find_element
\* raises NoSuchElementException on every pass; the except finds the cards
\* again and continues with the same hotel_index
hyatt_card_broken ==
    /\ hyatt_pc = "card"
    /\ hotel_index < total_cards
    /\ hotel_index \in hyatt_broken
    /\ hyatt_attempts' = Min(hyatt_attempts + 1, MaxHyattAttempts)
    /\ UNCHANGED << hyatt_checkpoint_json, hyatt_json, hyatt_csv, hyatt_pc,
                    hyatt_ret, checkpoint_index, results, scraped_urls,
                    hotel_index, total_cards, shown_cards, hyatt_runs,
                    hyatt_fails, hyatt_exit, hyatt_at_raise, hyatt_loaded,
                    hyatt_broken >>
    /\ hyatt_others

\* if hotel_url in scraped_urls: hotel_index += 1; checkpoint.save(hotel_index)
hyatt_card_skip ==
    /\ hyatt_pc = "card"
    /\ hotel_index < total_cards
    /\ hotel_index \notin hyatt_broken
    /\ HyattUrl(hotel_index) \in scraped_urls
    /\ hotel_index' = hotel_index + 1
    /\ checkpoint_index' = hotel_index + 1
    /\ hyatt_pc' = "checkpoint_open"
    /\ hyatt_ret' = "card"
    /\ UNCHANGED << hyatt_checkpoint_json, hyatt_json, hyatt_csv, results,
                    scraped_urls, total_cards, shown_cards, hyatt_runs,
                    hyatt_fails, hyatt_exit, hyatt_at_raise >>
    /\ hyatt_frame

\* the record is built and scraped: results.append(record);
\* scraped_urls.add(hotel_url)
hyatt_card_scrape ==
    /\ hyatt_pc = "card"
    /\ hotel_index < total_cards
    /\ hotel_index \notin hyatt_broken
    /\ HyattUrl(hotel_index) \notin scraped_urls
    /\ results' = Append(results, HyattRecord(hotel_index))
    /\ scraped_urls' = scraped_urls \cup {HyattUrl(hotel_index)}
    /\ hyatt_pc' = "json_open"
    /\ UNCHANGED << hyatt_checkpoint_json, hyatt_json, hyatt_csv, hyatt_ret,
                    checkpoint_index, hotel_index, total_cards, shown_cards,
                    hyatt_runs, hyatt_fails, hyatt_exit, hyatt_at_raise >>
    /\ hyatt_frame

\* open(OUTPUT_JSON, "w") empties the file
hyatt_json_open ==
    /\ hyatt_pc = "json_open"
    /\ hyatt_json' = TruncatedFile
    /\ hyatt_pc' = "json_dump"
    /\ UNCHANGED << hyatt_checkpoint_json, hyatt_csv, hyatt_ret,
                    checkpoint_index, results, scraped_urls, hotel_index,
                    total_cards, shown_cards, hyatt_runs, hyatt_fails,
                    hyatt_exit, hyatt_at_raise >>
    /\ hyatt_frame

\* json.dump(results, f); hotel_index += 1; checkpoint.save(hotel_index)
hyatt_json_dump ==
    /\ hyatt_pc = "json_dump"
    /\ hyatt_json' = [kind |-> "ok", rows |-> results]
    /\ hotel_index' = hotel_index + 1
    /\ checkpoint_index' = hotel_index + 1
    /\ hyatt_pc' = "checkpoint_open"
    /\ hyatt_ret' = "card"
    /\ UNCHANGED << hyatt_checkpoint_json, hyatt_csv, results, scraped_urls,
                    total_cards, shown_cards, hyatt_runs, hyatt_fails,
                    hyatt_exit, hyatt_at_raise >>
    /\ hyatt_frame

\* Checkpoint.save: open(self.path, "w") empties the file
hyatt_checkpoint_open ==
    /\ hyatt_pc = "checkpoint_open"
    /\ hyatt_checkpoint_json' = HyattTruncatedCheckpoint
    /\ hyatt_pc' = "checkpoint_dump"
    /\ UNCHANGED << hyatt_json, hyatt_csv, hyatt_ret, checkpoint_index,
                    results, scraped_urls, hotel_index, total_cards,
                    shown_cards, hyatt_runs, hyatt_fails, hyatt_exit,
                    hyatt_at_raise >>
    /\ hyatt_frame

\* Checkpoint.save: json.dump({"last_hotel_index": idx}, f); an exception
\* that was on its way out of main goes on after the finally clause
hyatt_checkpoint_dump ==
    /\ hyatt_pc = "checkpoint_dump"
    /\ hyatt_checkpoint_json' = HyattCheckpoint(checkpoint_index)
    /\ IF hyatt_ret = "raise"
       THEN /\ hyatt_NoProcess
            /\ hyatt_exit' = "raised"
       ELSE /\ hyatt_pc' = hyatt_ret
            /\ UNCHANGED << hyatt_ret, checkpoint_index, results, scraped_urls,
                            hotel_index, total_cards, shown_cards, hyatt_exit >>
    /\ UNCHANGED << hyatt_json, hyatt_csv, hyatt_runs, hyatt_fails,
                    hyatt_at_raise >>
    /\ hyatt_frame

\* an exception other than Stale/NoSuchElement leaves the card loop (the
\* detail page does not load, the session is lost): finally: driver.quit();
\* checkpoint.clear()
hyatt_card_raises ==
    /\ hyatt_pc = "card"
    /\ hotel_index < total_cards
    /\ hyatt_at_raise' = hyatt_checkpoint_json
    /\ checkpoint_index' = 0
    /\ hyatt_pc' = "checkpoint_open"
    /\ hyatt_ret' = "raise"
    /\ UNCHANGED << hyatt_checkpoint_json, hyatt_json, hyatt_csv, results,
                    scraped_urls, hotel_index, total_cards, shown_cards,
                    hyatt_runs, hyatt_fails, hyatt_exit >>
    /\ hyatt_frame

\* the 'show more' button is clicked and more cards are listed
hyatt_show_more ==
    /\ hyatt_pc = "card"
    /\ hotel_index >= total_cards
    /\ shown_cards < NumHyattCards
    /\ shown_cards' = CardsAfter(shown_cards)
    /\ hyatt_pc' = "cards"
    /\ UNCHANGED << hyatt_checkpoint_json, hyatt_json, hyatt_csv, hyatt_ret,
                    checkpoint_index, results, scraped_urls, hotel_index,
                    total_cards, hyatt_runs, hyatt_fails, hyatt_exit,
                    hyatt_at_raise >>
    /\ hyatt_frame

\* no button, or the click fails: except: break; finally: driver.quit();
\* checkpoint.clear()
hyatt_no_more ==
    /\ hyatt_pc = "card"
    /\ hotel_index >= total_cards
    /\ IF shown_cards < NumHyattCards
       THEN hyatt_fails < MaxHyattFails /\ hyatt_fails' = hyatt_fails + 1
       ELSE UNCHANGED hyatt_fails
    /\ checkpoint_index' = 0
    /\ hyatt_pc' = "checkpoint_open"
    /\ hyatt_ret' = "csv_open"
    /\ UNCHANGED << hyatt_checkpoint_json, hyatt_json, hyatt_csv, results,
                    scraped_urls, hotel_index, total_cards, shown_cards,
                    hyatt_runs, hyatt_exit, hyatt_at_raise >>
    /\ hyatt_frame

\* open(OUTPUT_CSV, "w") empties the file
hyatt_csv_open ==
    /\ hyatt_pc = "csv_open"
    /\ hyatt_csv' = TruncatedFile
    /\ hyatt_pc' = "csv_write"
    /\ UNCHANGED << hyatt_checkpoint_json, hyatt_json, hyatt_ret,
                    checkpoint_index, results, scraped_urls, hotel_index,
                    total_cards, shown_cards, hyatt_runs, hyatt_fails,
                    hyatt_exit, hyatt_at_raise >>
    /\ hyatt_frame

\* the header and one row per record are written; main returns and the
\* process ends
hyatt_csv_write ==
    /\ hyatt_pc = "csv_write"
    /\ hyatt_csv' = [kind |-> "ok", rows |-> results]
    /\ hyatt_NoProcess
    /\ hyatt_exit' = "returned"
    /\ UNCHANGED << hyatt_checkpoint_json, hyatt_json, hyatt_runs,
                    hyatt_fails, hyatt_at_raise >>
    /\ hyatt_frame

\* the process is terminated at any point
hyatt_kill ==
    /\ hyatt_pc # "off"
    /\ hyatt_NoProcess
    /\ hyatt_exit' = "killed"
    /\ UNCHANGED << hyatt_checkpoint_json, hyatt_json, hyatt_csv, hyatt_runs,
                    hyatt_fails, hyatt_at_raise >>
    /\ hyatt_frame

hyatt_Next ==
    \/ hyatt_main_begin
    \/ hyatt_main_load_raises
    \/ hyatt_find_cards
    \/ hyatt_card_stale
    \/ hyatt_card_skip
    \/ hyatt_card_scrape
    \/ hyatt_json_open
    \/ hyatt_json_dump
    \/ hyatt_checkpoint_open
    \/ hyatt_checkpoint_dump
    \/ hyatt_card_raises
    \/ hyatt_show_more
    \/ hyatt_no_more
    \/ hyatt_csv_open
    \/ hyatt_csv_write
    \/ hyatt_kill

-----------------------------------------------------------------------------
\* Marriott: the crawl of marriott.main under the loop of __main__

\* pages of the list of region r
RegionPages(r) == IF r = 0 THEN 2 ELSE 1

\* the hotel card idx of page p of region r shows
MarriottHotel(r, p, k) == << r, p, k >>

\* row of iterate_cards_on_list: hotel_code = f"MAR-{page_num}-{idx+1}"
marriott_row(r, p, k) ==
    [hotel_code |-> << "MAR", p, k + 1 >>, hotel_name |-> MarriottHotel(r, p, k)]

\* watchdog_check: time.time() - last_success_time > WATCHDOG_STALL_SECONDS
watchdog_stall ==
    marriott_now - marriott_last_success_time > WATCHDOG_STALL_SECONDS

\* main has returned or raised: its locals are gone; last_success_time is a
\* module global and stays
marriott_MainEnds ==
    /\ marriott_pc' = "off"
    /\ region_i' = 0
    /\ page_num' = 1
    /\ marriott_idx' = 0

marriott_Init ==
    /\ marriott_json = << >>
    /\ marriott_csv = << >>
    /\ marriott_pc = "off"
    /\ marriott_last_success_time = 0
    /\ region_i = 0
    /\ page_num = 1
    /\ marriott_idx = 0
    /\ marriott_now = 0
    /\ marriott_runs = 0
    /\ marriott_fails = 0
    /\ marriott_exit = "none"
    /\ marriott_stalled = FALSE
    /\ run_persisted = {}
    /\ persisted_at_fail = {}

\* __main__ calls main(): ensure_output_files, the browser, the start page,
\* scrape_regions; nothing is read from STATE_FILE or from the outputs
marriott_main_begin ==
    /\ marriott_pc = "off"
    /\ marriott_exit # "returned"
    /\ marriott_runs < MaxMarriottRuns
    /\ marriott_runs' = marriott_runs + 1
    /\ marriott_exit' = "running"
    /\ marriott_stalled' = FALSE
    /\ run_persisted' = {}
    /\ marriott_pc' = "region"
    /\ region_i' = 0
    /\ UNCHANGED << marriott_json, marriott_csv, marriott_last_success_time,
                    page_num, marriott_idx, marriott_now, marriott_fails,
                    persisted_at_fail >>
    /\ marriott_frame

\* driver.get(START_URL), a wait or scrape_regions raises: finally quit, the
\* exception reaches the loop of __main__
marriott_main_begin_raises ==
    /\ marriott_pc = "off"
    /\ marriott_exit # "returned"
    /\ marriott_runs < MaxMarriottRuns
    /\ marriott_fails < MaxMarriottFails
    /\ marriott_runs' = marriott_runs + 1
    /\ marriott_fails' = marriott_fails + 1
    /\ marriott_exit' = "raised"
    /\ marriott_stalled' = FALSE
    /\ run_persisted' = {}
    /\ persisted_at_fail' = {}
    /\ UNCHANGED << marriott_json, marriott_csv, marriott_pc,
                    marriott_last_success_time, region_i, page_num,
                    marriott_idx, marriott_now >>
    /\ marriott_frame

\* iterate_cards_on_list(driver, url) up to the first card: page_num = 1,
\* load_all_cards_on_page calls set_watchdog_success
marriott_region_begin ==
    /\ marriott_pc = "region"
    /\ region_i < NumRegions
    /\ marriott_pc' = "card"
    /\ page_num' = 1
    /\ marriott_idx' = 0
    /\ marriott_last_success_time' = marriott_now
    /\ UNCHANGED << marriott_json, marriott_csv, region_i, marriott_now,
                    marriott_runs, marriott_fails, marriott_exit,
                    marriott_stalled, run_persisted, persisted_at_fail >>
    /\ marriott_frame

\* driver.get(list_url) or the load raises: main's except prints and continues
marriott_region_raises ==
    /\ marriott_pc = "region"
    /\ region_i < NumRegions
    /\ marriott_fails < MaxMarriottFails
    /\ marriott_fails' = marriott_fails + 1
    /\ region_i' = region_i + 1
    /\ UNCHANGED << marriott_json, marriott_csv, marriott_pc,
                    marriott_last_success_time, page_num, marriott_idx,
                    marriott_now, marriott_runs, marriott_exit,
                    marriott_stalled, run_persisted, persisted_at_fail >>
    /\ marriott_frame

\* one card: watchdog_check passes, the modal is scraped, write_csv_row,
\* save_json_append, set_watchdog_success
marriott_card_ok ==
    /\ marriott_pc = "card"
    /\ marriott_idx < MarriottCards
    /\ ~watchdog_stall
    /\ marriott_csv' =
          Append(marriott_csv, marriott_row(region_i, page_num, marriott_idx))
    /\ marriott_json' =
          Append(marriott_json, marriott_row(region_i, page_num, marriott_idx))
    /\ run_persisted' =
          run_persisted \cup {MarriottHotel(region_i, page_num, marriott_idx)}
    /\ marriott_last_success_time' = marriott_now
    /\ marriott_idx' = marriott_idx + 1
    /\ UNCHANGED << marriott_pc, region_i, page_num, marriott_now,
                    marriott_runs, marriott_fails, marriott_exit,
                    marriott_stalled, persisted_at_fail >>
    /\ marriott_frame

\* one card: watchdog_check passes, the card raises after its waits (except
\* Exception: print) or is skipped; the loop goes on
marriott_card_fails ==
    /\ marriott_pc = "card"
    /\ marriott_idx < MarriottCards
    /\ ~watchdog_stall
    /\ marriott_now < MarriottTick * MaxMarriottTicks
    /\ marriott_now' = marriott_now + MarriottTick
    /\ marriott_idx' = marriott_idx + 1
    /\ UNCHANGED << marriott_json, marriott_csv, marriott_pc,
                    marriott_last_success_time, region_i, page_num,
                    marriott_runs, marriott_fails, marriott_exit,
                    marriott_stalled, run_persisted, persisted_at_fail >>
    /\ marriott_frame

\* watchdog_check raises TimeoutException before the try of the card: it
\* leaves iterate_cards_on_list and is caught by 'except Exception' of main's
\* region loop, which prints and continues with the next region
marriott_watchdog_raises ==
    /\ marriott_pc = "card"
    /\ marriott_idx < MarriottCards
    /\ watchdog_stall
    /\ marriott_stalled' = TRUE
    /\ marriott_pc' = "region"
    /\ region_i' = region_i + 1
    /\ UNCHANGED << marriott_json, marriott_csv, marriott_last_success_time,
                    page_num, marriott_idx, marriott_now, marriott_runs,
                    marriott_fails, marriott_exit, run_persisted,
                    persisted_at_fail >>
    /\ marriott_frame

\* the pagination: NextPage is clicked, page_num += 1, and the next pass of
\* the loop loads the cards
marriott_next_page ==
    /\ marriott_pc = "card"
    /\ marriott_idx = MarriottCards
    /\ page_num < RegionPages(region_i)
    /\ page_num' = page_num + 1
    /\ marriott_idx' = 0
    /\ marriott_last_success_time' = marriott_now
    /\ UNCHANGED << marriott_json, marriott_csv, marriott_pc, region_i,
                    marriott_now, marriott_runs, marriott_fails,
                    marriott_exit, marriott_stalled, run_persisted,
                    persisted_at_fail >>
    /\ marriott_frame

\* NextPage is disabled: iterate_cards_on_list returns
marriott_region_done ==
    /\ marriott_pc = "card"
    /\ marriott_idx = MarriottCards
    /\ page_num = RegionPages(region_i)
    /\ marriott_pc' = "region"
    /\ region_i' = region_i + 1
    /\ UNCHANGED << marriott_json, marriott_csv, marriott_last_success_time,
                    page_num, marriott_idx, marriott_now, marriott_runs,
                    marriott_fails, marriott_exit, marriott_stalled,
                    run_persisted, persisted_at_fail >>
    /\ marriott_frame

\* the regions are done: finally driver.quit(), main returns, __main__ breaks
marriott_main_returns ==
    /\ marriott_pc = "region"
    /\ region_i = NumRegions
    /\ marriott_exit' = "returned"
    /\ marriott_MainEnds
    /\ UNCHANGED << marriott_json, marriott_csv, marriott_last_success_time,
                    marriott_now, marriott_runs, marriott_fails,
                    marriott_stalled, run_persisted, persisted_at_fail >>
    /\ marriott_frame

\* the regions are done and driver.quit() raises in the finally: the
\* exception reaches the loop of __main__, which sleeps and calls main() again
marriott_quit_raises ==
    /\ marriott_pc = "region"
    /\ region_i = NumRegions
    /\ marriott_fails < MaxMarriottFails
    /\ marriott_fails' = marriott_fails + 1
    /\ marriott_exit' = "raised"
    /\ persisted_at_fail' = run_persisted
    /\ marriott_MainEnds
    /\ UNCHANGED << marriott_json, marriott_csv, marriott_last_success_time,
                    marriott_now, marriott_runs, marriott_stalled,
                    run_persisted >>
    /\ marriott_frame

marriott_Next ==
    \/ marriott_main_begin
    \/ marriott_main_begin_raises
    \/ marriott_region_begin
    \/ marriott_region_raises
    \/ marriott_card_ok
    \/ marriott_card_fails
    \/ marriott_watchdog_raises
    \/ marriott_next_page
    \/ marriott_region_done
    \/ marriott_main_returns
    \/ marriott_quit_raises

-----------------------------------------------------------------------------
\* Specifications

-----------------------------------------------------------------------------
\* main.py: run_parallel starts one process per name, then joins them

\* the keys of SCRAPERS
SCRAPERS == {"hilton", "ihg", "marriott", "hyatt"}

\* the files a brand's crawl writes: its module's path constants
BrandFiles(name) ==
    CASE name = "hilton" ->
            { "json/hilton/hilton_pet_friendly_hotels.json",
              "csv/hilton/hilton_pet_friendly_hotels.csv",
              "hilton_last_state.json" }
      [] name = "ihg" ->
            { "json/ihg/ihg_hotels_output.json",
              "csv/ihg/ihg_hotels_output.csv",
              "csv/ihg/ihg_city_urls.csv",
              "ihg_checkpoint.json" }
      [] name = "marriott" ->
            { "json/marriott/marriott_pet_friendly_hotels.json",
              "json/marriott/marriott_pet_friendly_regions.json",
              "csv/marriott/marriott_pet_friendly_hotels.csv" }
      [] OTHER ->
            { "json/hyatt/hyatt_hotels.json",
              "csv/hyatt/hyatt_hotels.csv",
              "json/hyatt/hyatt_checkpoint.json" }

Paths == UNION { BrandFiles(name) : name \in SCRAPERS }

\* the lists of distinct scraper names run_parallel can be given; --all gives
\* SCRAPERS.keys()
NameLists ==
    { s \in UNION { [1 .. n -> SCRAPERS] : n \in 0 .. Cardinality(SCRAPERS) } :
        \A a, b \in DOMAIN s : a # b => s[a] # s[b] }

Terminated == {"finished", "failed"}

\* what a step of run_parallel or of a child process leaves alone
parallel_frame ==
    UNCHANGED << hilton_vars, merge_vars, retry_vars, ihg_vars, hyatt_vars,
                 hilton_history_vars, retry_action_vars, ihg_start_vars,
                 marriott_vars, load_vars >>

parallel_Idle ==
    /\ parallel_pc = "idle"
    /\ names = << >>
    /\ processes = << >>
    /\ join_i = 0
    /\ child = [name \in SCRAPERS |-> "none"]
    /\ writers = [path \in Paths |-> {}]
    /\ failed_while_starting = FALSE

\* run_parallel(names) is entered: processes = []
parallel_Init ==
    /\ parallel_pc = "start"
    /\ names \in NameLists
    /\ processes = << >>
    /\ join_i = 0
    /\ child = [name \in SCRAPERS |-> "none"]
    /\ writers = [path \in Paths |-> {}]
    /\ failed_while_starting = FALSE

\* as run_parallel_start, the process joined as soon as it is started
run_parallel_start_then_join ==
    /\ parallel_pc = "start"
    /\ Len(processes) < Len(names)
    /\ processes' = Append(processes, names[Len(processes) + 1])
    /\ child' = [child EXCEPT ![names[Len(processes) + 1]] = "running"]
    /\ parallel_pc' = "join"
    /\ UNCHANGED << names, join_i, writers, failed_while_starting >>
    /\ parallel_frame

\* p = mp.Process(target=run_single, args=(name,)); p.start();
\* processes.append(p)
run_parallel_start ==
    /\ parallel_pc = "start"
    /\ Len(processes) < Len(names)
    /\ processes' = Append(processes, names[Len(processes) + 1])
    /\ child' = [child EXCEPT ![names[Len(processes) + 1]] = "running"]
    /\ UNCHANGED << parallel_pc, names, join_i, writers, failed_while_starting >>
    /\ parallel_frame

\* the first loop is over: the second loop begins
run_parallel_started_all ==
    /\ parallel_pc = "start"
    /\ Len(processes) = Len(names)
    /\ parallel_pc' = "join"
    /\ UNCHANGED << names, processes, join_i, child, writers,
                    failed_while_starting >>
    /\ parallel_frame

\* p.join() returns: the process has terminated
run_parallel_join ==
    /\ parallel_pc = "join"
    /\ join_i < Len(processes)
    /\ child[processes[join_i + 1]] \in Terminated
    /\ join_i' = join_i + 1
    /\ UNCHANGED << parallel_pc, names, processes, child, writers,
                    failed_while_starting >>
    /\ parallel_frame

\* the second loop is over: run_parallel returns
run_parallel_returns ==
    /\ parallel_pc = "join"
    /\ join_i = Len(processes)
    /\ parallel_pc' = "returned"
    /\ UNCHANGED << names, processes, join_i, child, writers,
                    failed_while_starting >>
    /\ parallel_frame

\* run_single in a child process: SCRAPERS[name]() writes the brand's files
run_single_writes(name) ==
    /\ child[name] = "running"
    /\ child' = [child EXCEPT ![name] = "working"]
    /\ writers' = [path \in Paths |->
                     IF path \in BrandFiles(name)
                     THEN writers[path] \cup {name} ELSE writers[path]]
    /\ UNCHANGED << parallel_pc, names, processes, join_i,
                    failed_while_starting >>
    /\ parallel_frame

\* run_single in a child process: SCRAPERS[name]() returns
run_single_finishes(name) ==
    /\ child[name] = "working"
    /\ child' = [child EXCEPT ![name] = "finished"]
    /\ UNCHANGED << parallel_pc, names, processes, join_i, writers,
                    failed_while_starting >>
    /\ parallel_frame

\* run_single in a child process: SCRAPERS[name]() raises and the child exits
run_single_fails(name) ==
    /\ child[name] \in {"running", "working"}
    /\ child' = [child EXCEPT ![name] = "failed"]
    /\ failed_while_starting' =
          (failed_while_starting
             \/ (parallel_pc = "start" /\ Len(processes) < Len(names)))
    /\ UNCHANGED << parallel_pc, names, processes, join_i, writers >>
    /\ parallel_frame

parallel_Next ==
    \/ run_parallel_start
    \/ run_parallel_started_all
    \/ run_parallel_join
    \/ run_parallel_returns
    \/ \E name \in SCRAPERS : run_single_writes(name)
    \/ \E name \in SCRAPERS : run_single_finishes(name)
    \/ \E name \in SCRAPERS : run_single_fails(name)

Init ==
    hilton_Init /\ merge_Idle /\ retry_Idle /\ ihg_Init /\ hyatt_Init
    /\ retry_action_Idle /\ marriott_Init /\ load_Idle /\ parallel_Idle

Next == hilton_Crawl

\* the Hilton crawl
Spec == Init /\ [][Next]_vars

\* the Hilton crawl with the clock and the watchdog
SpecWatchdog == Init /\ [][hilton_Next]_vars

InitMerge ==
    hilton_Init /\ merge_Init /\ retry_Idle /\ ihg_Init /\ hyatt_Init
    /\ retry_action_Idle /\ marriott_Init /\ load_Idle /\ parallel_Idle

\* append_or_merge on every record set and incoming list within the bounds
SpecMerge == InitMerge /\ [][merge_call]_vars

InitRetry ==
    hilton_Init /\ merge_Idle /\ retry_Init /\ ihg_Init /\ hyatt_Init
    /\ retry_action_Idle /\ marriott_Init /\ load_Idle /\ parallel_Idle

\* an operation wrapped by retryable, for every max_retries within the bound
SpecRetry == InitRetry /\ [][retry_Next]_vars

\* the IHG crawl, its failures, its terminations and its restarts
SpecIhg == Init /\ [][ihg_Next]_vars

\* the checkpoint files main can find: every kind, and every position
CheckpointContents ==
    { NoCheckpointFile, TruncatedCheckpointFile, ArrayCheckpointFile,
      EmptyObjectCheckpointFile, StringsCheckpointFile }
    \cup { [kind |-> "ok", obj |-> [city_index |-> c, hotel_index |-> h]] :
             c \in 0 .. NumCities - 1, h \in 0 .. 1 }

InitIhgStart ==
    /\ hilton_Init /\ merge_Idle /\ retry_Idle /\ hyatt_Init
    /\ retry_action_Idle /\ marriott_Init /\ load_Idle /\ parallel_Idle
    /\ \E file \in CheckpointContents : ihg_InitWith(file)

ihg_StartNext == ihg_Next \/ ihg_main_begin_raises

\* the IHG crawl started on every content of the checkpoint file
SpecIhgStart == InitIhgStart /\ [][ihg_StartNext]_vars

\* the Marriott crawl under the loop of __main__
SpecMarriott == Init /\ [][marriott_Next]_vars

\* the Hyatt crawl on a list in which at most one card lacks an element
InitHyattList ==
    /\ hilton_Init /\ merge_Idle /\ retry_Idle /\ ihg_Init
    /\ retry_action_Idle /\ marriott_Init /\ load_Idle /\ parallel_Idle
    /\ hyatt_InitList
    /\ hyatt_broken \in {{}} \cup { {k} : k \in 0 .. NumHyattCards - 1 }

hyatt_ListNext == hyatt_Next \/ hyatt_card_broken

\* the steps main takes by itself while the process runs and the driver
\* answers: every branch of the loops but the failures of the driver
hyatt_Runs ==
    \/ hyatt_find_cards
    \/ hyatt_card_broken
    \/ hyatt_card_skip
    \/ hyatt_card_scrape
    \/ hyatt_json_open
    \/ hyatt_json_dump
    \/ hyatt_checkpoint_open
    \/ hyatt_checkpoint_dump
    \/ hyatt_show_more
    \/ hyatt_csv_open
    \/ hyatt_csv_write

SpecHyattList ==
    InitHyattList /\ [][hyatt_ListNext]_vars /\ WF_vars(hyatt_Runs)

InitLoadState ==
    /\ hilton_Init /\ merge_Idle /\ retry_Idle /\ ihg_Init /\ hyatt_Init
    /\ retry_action_Idle /\ marriott_Init /\ load_Init /\ parallel_Idle

\* hilton.load_state on every checkpoint object within the bound
SpecLoadState == InitLoadState /\ [][load_state_call]_vars

InitParallel ==
    /\ hilton_Init /\ merge_Idle /\ retry_Idle /\ ihg_Init /\ hyatt_Init
    /\ retry_action_Idle /\ marriott_Init /\ load_Idle /\ parallel_Init

\* run_parallel on every list of distinct scraper names
SpecParallel == InitParallel /\ [][parallel_Next]_vars

\* the Hyatt crawl, its failures, its terminations and its re-runs
SpecHyatt == Init /\ [][hyatt_Next]_vars

InitRetryAction ==
    hilton_Init /\ merge_Idle /\ retry_Idle /\ ihg_Init /\ hyatt_Init
    /\ retry_action_Init /\ marriott_Init /\ load_Idle /\ parallel_Idle

\* hilton.retry_action, for every retries within the bound
SpecRetryAction == InitRetryAction /\ [][retry_action_Next]_vars

-----------------------------------------------------------------------------
\* Properties of the Hilton crawl

\* C1: when the process is terminated right after the save_state call that
\* follows item k of page p of location c, before item k+1 begins, the first
\* item of that page the restarted walker processes is index k+1: item k is
\* not processed again and item k+1 is not skipped.
C1_ResumeAtNextItem ==
    (killed_after # NoItem /\ first_at_kill # NoItem)
    => first_at_kill = [c |-> killed_after.c, p |-> killed_after.p,
                        k |-> killed_after.k + 1]

\* C2: a run started from the saved position (c, p, n), page p of location c
\* holding more than n items, processes items of page p of location c, from
\* index n on: every item processed at position (c, p) is an item of the
\* listing page p and has index at least n.
C2_ResumeProcessesPageP ==
    ( /\ hilton_pc = "extract"
      /\ loc_idx = start_location_idx
      /\ page = start_page
      /\ start_hotel_idx < Buttons(loc_idx, start_page) )
    => (shown = start_page /\ i >= start_hotel_idx)

\* C6: the JSON output never holds two records with the same hotel_code.
C6_NoDuplicateHotelCode ==
    hilton_json.kind = "ok" =>
        \A a, b \in 1 .. Len(hilton_json.rows) :
            a # b => hilton_json.rows[a] # hilton_json.rows[b]

\* C7: when main() starts on a checkpoint file holding invalid JSON, load_state
\* returns the zero position and raises nothing.
C7_CorruptCheckpointLoadsZero ==
    (hilton_pc = "boot" /\ hilton_state_file.kind = "corrupt")
    => load_state(hilton_state_file) = [raised |-> FALSE, pos |-> ZeroPosition]

\* C9: a stall is raised once per stall episode: it is not raised again
\* before a further full threshold has elapsed without a successful item.
C9_StallRaisedOncePerEpisode == ~stall_repeat

\* C10: once main() has returned after exhausting every location, load_state
\* returns the zero position.
C10_DoneClearsCheckpoint ==
    (hilton_pc = "boot" /\ hilton_exit = "returned")
    => load_state(hilton_state_file) = [raised |-> FALSE, pos |-> ZeroPosition]
-----------------------------------------------------------------------------
\* Properties of append_or_merge

\* the record of the result that holds the key
ResultFor(key) ==
    merge_result[CHOOSE n \in 1 .. Len(merge_result) :
                    key_of(merge_result[n]) = key]

\* the pairs the fill-only rule is about: an existing record and the one
\* incoming record that shares its key
MergedPairs ==
    { pr \in (1 .. Len(merge_existing)) \X (1 .. Len(merge_hotels)) :
        /\ key_of(merge_existing[pr[1]]) = key_of(merge_hotels[pr[2]])
        /\ \A n \in 1 .. Len(merge_hotels) :
              key_of(merge_hotels[n]) = key_of(merge_hotels[pr[2]]) => n = pr[2] }

\* C3 as claimed: for an existing record e and an incoming record i sharing
\* the key, every field of the merged record equals e's value when that is
\* non-empty and i's value otherwise.
C3_FillOnlyElseIncoming ==
    merge_pc = "done" =>
        \A pr \in MergedPairs : \A f \in Fields :
            LET e == merge_existing[pr[1]]
                inc == merge_hotels[pr[2]]
            IN  dict_get(ResultFor(key_of(e)), f) =
                    IF dict_get(e, f) \notin Empties
                    THEN dict_get(e, f) ELSE dict_get(inc, f)

\* C3 as amended: every field of the merged record equals i's value when e's
\* value is empty and i's is non-empty, and is e's own value otherwise (an
\* empty or absent value of e stays as it is when i's value is empty too).
C3_FillOnly ==
    merge_pc = "done" =>
        \A pr \in MergedPairs : \A f \in Fields :
            LET e == merge_existing[pr[1]]
                inc == merge_hotels[pr[2]]
            IN  ResultFor(key_of(e))[f] =
                    IF dict_get(e, f) \in Empties
                       /\ dict_get(inc, f) \notin Empties
                    THEN inc[f] ELSE e[f]

C3_Witness ==
    /\ merge_pc = "done"
    /\ \E pr \in MergedPairs :
          /\ merge_existing[pr[1]].phone = ""
          /\ merge_hotels[pr[2]].phone = "555"
          /\ ResultFor(key_of(merge_existing[pr[1]])).phone = "555"

\* the fill-only rule between two records: a field of the first that is empty
\* takes the second's value when that is non-empty; every other field keeps
\* the first's value
FillOnly(first, second) ==
    [ f \in Fields |->
        IF dict_get(first, f) \in Empties /\ dict_get(second, f) \notin Empties
        THEN second[f] ELSE first[f] ]

\* the batch is two records that share an identity key
BatchOfTwoSameKey ==
    /\ merge_pc = "done"
    /\ Len(merge_hotels) = 2
    /\ key_of(merge_hotels[1]) = key_of(merge_hotels[2])

\* C24: when two incoming records of one batch share an identity key, the
\* resulting record for that key equals the one obtained by first applying
\* the fill-only rule between the two in scan order (the earlier record's
\* non-empty fields win) and then fill-merging that combination into the
\* existing record for the key, if any.
C24_BatchDuplicatesFillInScanOrder ==
    BatchOfTwoSameKey =>
        LET key == key_of(merge_hotels[1])
            both == FillOnly(merge_hotels[1], merge_hotels[2])
            held == { n \in 1 .. Len(merge_existing) :
                        key_of(merge_existing[n]) = key }
        IN  ResultFor(key) =
                IF held = {} THEN both
                ELSE FillOnly(merge_existing[CHOOSE n \in held : TRUE], both)

\* the existing record has no phone, the first incoming record an empty one,
\* the second a number: the number is filled in
C24_Witness ==
    /\ BatchOfTwoSameKey
    /\ \E n \in 1 .. Len(merge_existing) :
          /\ key_of(merge_existing[n]) = key_of(merge_hotels[1])
          /\ merge_existing[n].phone = PyNone
    /\ merge_hotels[1].phone = ""
    /\ merge_hotels[2].phone = "555"
    /\ ResultFor(key_of(merge_hotels[1])).phone = "555"

\* C4: merging a record that the set already holds, with identical field
\* values, returns exactly the records of the set, in their order.
C4_MergeIdempotent ==
    ( /\ merge_pc = "done"
      /\ Len(merge_hotels) = 1
      /\ \E n \in 1 .. Len(merge_existing) : merge_existing[n] = merge_hotels[1] )
    => merge_result = merge_existing

C4_Witness ==
    /\ merge_pc = "done"
    /\ Len(merge_hotels) = 1
    /\ Len(merge_existing) = 2
    /\ merge_existing[2] = merge_hotels[1]
    /\ merge_result = merge_existing

-----------------------------------------------------------------------------
\* Properties of retryable

\* every call of fn raised one of the retried classes
AllCallsCaught ==
    \A n \in 1 .. Len(retry_calls) : retry_calls[n].cls \in RetriedClasses

\* C8: with max_retries = n >= 1 and an operation that fails on every attempt
\* with a retried class, the operation is called exactly n times and the
\* exception raised to the caller is the one the n-th call raised.
C8_RetriesThenLastFailure ==
    (retry_pc = "raised" /\ max_retries >= 1 /\ AllCallsCaught)
    => /\ Len(retry_calls) = max_retries
       /\ retry_raised = retry_calls[max_retries]

C8_Witness ==
    /\ retry_pc = "raised"
    /\ max_retries = 3
    /\ AllCallsCaught
    /\ retry_raised = retry_calls[3]
    /\ retry_calls[1].cls # retry_calls[3].cls

-----------------------------------------------------------------------------
\* Properties of the IHG crawl

\* C5: in every JSON output written by save_outputs, after any sequence of
\* city scrapes, failed cities, process restarts and re-scrapes of the same
\* city, no two records share the identity key (hotel_code, hotel_name).
C5_JsonKeysUnique ==
    hotel_json.kind = "ok" => UniqueKeys(json_load(hotel_json.rows))

C5_Witness ==
    /\ ihg_pc = "saved"
    /\ hotel_json.kind = "ok"
    /\ Len(hotel_json.rows) >= 2
    /\ ihg_rescrape
    /\ ihg_failed
    /\ ihg_runs >= 2
    /\ UniqueKeys(json_load(hotel_json.rows))

-----------------------------------------------------------------------------
\* Properties of the Hyatt crawl

\* C11: the checkpoint is reset to zero only when the crawl has completed
\* fully and successfully: a run that ended by an exception escaping the card
\* loop leaves in the checkpoint file the last_hotel_index that was saved
\* last before the exception was raised.
C11_FailedRunKeepsCheckpoint ==
    (hyatt_pc = "off" /\ hyatt_exit = "raised")
    => Checkpoint_load(hyatt_checkpoint_json) = Checkpoint_load(hyatt_at_raise)

\* C20: an output file that exists and holds invalid JSON is never fatal:
\* main treats it as an empty record set and starts the crawl, so no run ends
\* with the exception of reading it.
C20_UnreadableOutputNotFatal ==
    (hyatt_runs > 0 /\ hyatt_json.kind = "corrupt" /\ hyatt_pc = "off")
    => hyatt_exit # "load_raised"

-----------------------------------------------------------------------------
\* Properties of the output files

\* the JSON output of each scraper is, at this instant, a complete array
HiltonJsonComplete == hilton_json.kind # "corrupt"

IhgJsonComplete == hotel_json.kind # "corrupt"

HyattJsonComplete == hyatt_json.kind # "corrupt"

\* C14: at every instant, also in the middle of a write (where a termination
\* of the process would leave the file as it is), the JSON output file of
\* each of the three writers is a complete well-formed array, never a partial
\* or truncated one.
C14_JsonNeverPartial ==
    HiltonJsonComplete /\ IhgJsonComplete /\ HyattJsonComplete

-----------------------------------------------------------------------------
\* More properties of the Hilton crawl

\* C15: a termination of the process during save_state or right after it
\* leaves a checkpoint file (the file as it is at that instant) from which
\* load_state returns the position saved before or the new one, and once
\* save_state has returned it returns the new one.
C15_SaveStateAtomic ==
    /\ hilton_pc = "save_dump"
       => load_state(hilton_state_file)
             \in { load_state(prev_state_file),
                   [raised |-> FALSE, pos |-> save_arg] }
    /\ hilton_pc \in {"esc", "refresh", "loc_next"}
       => load_state(hilton_state_file) = [raised |-> FALSE, pos |-> last_saved]

\* C16: an item whose processing failed is not retried: after a restart of
\* the process the walker does not process that item of that page again.
C16_FailedItemNotRetried == ~failed_retried

\* C19: when action fails on all n = retries attempts, the exception
\* retry_action raises to its caller is the one the n-th call of action
\* raised.
C19_RetryActionRaisesLast ==
    (retry_action_pc = "raised" /\ Len(action_calls) = retries)
    => retry_action_raised = action_calls[retries]

-----------------------------------------------------------------------------
\* More properties of the IHG crawl

\* the retries of scrape_city for the city at hand were exhausted
CityExhausted == scrape_attempt = SCRAPE_CITY_RETRIES

\* C17: when scrape_city for city i still fails after its retries are
\* exhausted, main abandons city i and proceeds to city i+1 with every
\* accumulated record kept, and the run is not aborted: from the failing step
\* on, every step keeps all_hotels; unless the process is terminated from
\* outside main keeps running, and the browser restart moves on to city i+1.
C17_ExhaustedCityAbandoned ==
    [][ /\ CityExhausted' => all_hotels' = all_hotels
        /\ CityExhausted =>
              \/ ihg_kill
              \/ /\ ihg_pc' # "off"
                 /\ ihg_pc = "restart" => (ihg_pc' = "city" /\ city_i' = city_i + 1)
      ]_vars

C17_Witness ==
    /\ CityExhausted
    /\ ihg_pc = "city"
    /\ city_i = 1
    /\ Len(all_hotels) >= 2
    /\ hotel_json = [kind |-> "ok", rows |-> json_dump(all_hotels)]

\* the latest main() has read its start position (it is in the loop)
StartRead == ihg_pc = "city" /\ ihg_runs > 0

\* C18: for any content of the checkpoint file (missing, invalid JSON, or
\* valid JSON that does not hold the expected position fields) constructing
\* CheckpointManager and reading the start position in main raises no error,
\* and when the file does not hold a position the start is city_index 0,
\* hotel_index 0.
C18_AnyCheckpointStarts ==
    /\ ~ihg_start_raised
    /\ (StartRead /\ ihg_started_from.kind # "ok")
          => (start_city_idx = 0 /\ ihg_start_hotel_idx = 0)

-----------------------------------------------------------------------------
\* Properties of the Marriott crawl

\* the rows of OUTPUT_FILE_JSON, of OUTPUT_FILE_CSV, that hold hotel h
JsonRowsOf(h) == { n \in DOMAIN marriott_json : marriott_json[n].hotel_name = h }

CsvRowsOf(h) == { n \in DOMAIN marriott_csv : marriott_csv[n].hotel_name = h }

\* C12: when main fails and the loop of __main__ restarts it, the restarted
\* crawl resumes near where the failed run left off: no item whose record the
\* failed run had persisted is scraped and appended to the outputs again.
C12_RestartDoesNotRepeat ==
    \A h \in persisted_at_fail :
        /\ Cardinality(JsonRowsOf(h)) <= 1
        /\ Cardinality(CsvRowsOf(h)) <= 1

\* C13: a stall detected by watchdog_check is fatal to the current call of
\* main: after it the same call does not go on to process cards.
C13_StallEndsMain == ~(marriott_stalled /\ marriott_pc = "card")

\* C30: within one uninterrupted run of main over all regions, no two
\* persisted records share a hotel_code: the code identifies one scraped card
\* across regions and pages. (The first call of main starts on empty outputs,
\* so every row is one it persisted.)
C30_HotelCodeIdentifiesCard ==
    marriott_runs = 1 =>
        \A m, n \in DOMAIN marriott_json :
            marriott_json[m].hotel_code = marriott_json[n].hotel_code => m = n

-----------------------------------------------------------------------------
\* More properties of the Hyatt crawl

\* no two rows hold the same hotel_url
DistinctUrls(rows) ==
    \A m, n \in DOMAIN rows : rows[m].hotel_url = rows[n].hotel_url => m = n

\* the hotel_url of the record a step appended to results
AppendedUrl == results'[Len(results')].hotel_url

\* C29: a hotel URL that is present in the loaded output or was already
\* appended in this run is never detail-scraped and appended again; the resume
\* is done by this URL set: main starts at index 0 whatever the checkpoint
\* holds; and the records of a run have pairwise distinct hotel_url. Every
\* step that appends a record appends a URL that was neither loaded nor
\* held by results, and results and the written output never hold a URL twice.
C29_UrlSetResume ==
    [][ /\ (hyatt_pc = "off" /\ hyatt_pc' = "cards") => hotel_index' = 0
        /\ (hyatt_pc = "card" /\ Len(results') = Len(results) + 1) =>
              /\ AppendedUrl \notin hyatt_loaded
              /\ \A n \in DOMAIN results : results[n].hotel_url # AppendedUrl
        /\ DistinctUrls(results')
        /\ hyatt_json'.kind = "ok" => DistinctUrls(hyatt_json'.rows)
      ]_vars

\* a second run that loaded records, skipped their cards and appended more
C29_Witness ==
    /\ hyatt_runs = 2
    /\ hyatt_pc = "card"
    /\ hyatt_loaded # {}
    /\ Len(results) > Cardinality(hyatt_loaded)
    /\ hyatt_json = [kind |-> "ok", rows |-> results]
    /\ hotel_index > 2

\* C25: the retries of the card loop are bounded: a card whose processing
\* keeps raising StaleElementReferenceException or NoSuchElementException is
\* attempted a bounded number of times and then skipped, so the loop over the
\* listed cards terminates: whenever main is at card k, hotel_index later
\* passes k (or main has ended).
C25_CardLoopTerminates ==
    \A k \in 0 .. NumHyattCards - 1 :
        (hyatt_pc = "card" /\ hotel_index = k /\ k < total_cards)
            ~> (hotel_index > k \/ hyatt_pc = "off")

\* C22: after hotel index i of the current city has been processed
\* successfully, the persisted checkpoint holds hotel_index = i+1 before the
\* next hotel begins. When scrape_city has returned with at least one record,
\* some index i >= 0 was processed successfully and nothing has touched the
\* checkpoint since, so the checkpoint file holds a hotel_index of at least 1.
C22_HotelIndexPersisted ==
    (ihg_pc = "set_hotel" /\ ihg_hotels # << >>)
    => /\ checkpoint_json.kind = "ok"
       /\ checkpoint_json.obj.city_index =
             global_city_index(city_i, start_city_idx)
       /\ checkpoint_json.obj.hotel_index >= 1

-----------------------------------------------------------------------------
\* Properties of hilton.load_state

\* a position field by the stated precedence: the current key when present,
\* otherwise the legacy alias when present, otherwise the default
ByPrecedence(current, legacy, default) ==
    IF current # Missing THEN current
    ELSE IF legacy # Missing THEN legacy
    ELSE default

\* C26: on a readable checkpoint object each position field is taken from its
\* current key (location_idx, page, hotel_idx) when that key is present,
\* otherwise from its legacy alias (last_location_index, last_page clamped to
\* at least 1, last_card_index) when present, otherwise it is the default
\* (0, 1, 0); a current key always takes precedence over its legacy alias.
C26_CurrentThenLegacyThenDefault ==
    load_pc = "done" =>
        /\ load_result.location_idx =
              ByPrecedence(load_data.location_idx,
                           load_data.last_location_index, 0)
        /\ load_result.page =
              ByPrecedence(load_data.page,
                           IF load_data.last_page = 0
                           THEN 1 ELSE load_data.last_page, 1)
        /\ load_result.hotel_idx =
              ByPrecedence(load_data.hotel_idx, load_data.last_card_index, 0)

\* an object with a current key beside a different alias, a legacy page of 0
\* and no hotel index at all
C26_Witness ==
    /\ load_pc = "done"
    /\ load_data.location_idx = 1 /\ load_data.last_location_index = 2
    /\ load_data.page = Missing /\ load_data.last_page = 0
    /\ load_data.hotel_idx = Missing /\ load_data.last_card_index = Missing
    /\ load_result = [location_idx |-> 1, page |-> 1, hotel_idx |-> 0]

-----------------------------------------------------------------------------
\* More properties of the Hilton crawl

\* C27: once main() has returned normally because every location is
\* exhausted, the loop of __main__ stops and the script terminates: main() is
\* not called again.
C27_LoopStopsAfterReturn == ~called_after_return

\* C28: an item whose processing fails inside its try block before save_state
\* leaves the CSV output, the JSON output and the checkpoint file as they were
\* before the item; so, in a crawl that was never killed, the CSV and the JSON
\* hold the same records whenever the loop stands between two items.
C28_FailedItemLeavesOutputs ==
    (kills = 0 /\ hilton_pc = "item" /\ hilton_json.kind = "ok")
        => hilton_csv.rows = hilton_json.rows

\* the position a readable STATE_FILE holds
PersistedPosition(file) == load_state(file).pos

\* lexicographic order of two positions (location_idx, page, hotel_idx)
PositionLeq(a, b) ==
    \/ a.location_idx < b.location_idx
    \/ /\ a.location_idx = b.location_idx
       /\ \/ a.page < b.page
          \/ a.page = b.page /\ a.hotel_idx <= b.hotel_idx

\* a step in which save_state finishes writing STATE_FILE
SaveStateReturns ==
    /\ hilton_pc = "save_dump"
    /\ hilton_state_file'.kind = "ok"

\* C23: the persisted position only advances: every save_state writes a
\* position lexicographically greater than or equal to the one STATE_FILE held
\* when save_state was called, whatever successes, failures, page advances,
\* location advances and restarts came before; the save of a page advance
\* writes the new page with hotel_idx 0 and the save of a location advance
\* writes the next location with (page, hotel_idx) = (1, 0).
C23_PositionOnlyAdvances ==
    [][ SaveStateReturns =>
          /\ prev_state_file.kind # "corrupt"
                => PositionLeq(PersistedPosition(prev_state_file),
                               PersistedPosition(hilton_state_file'))
          /\ save_ret = "page"
                => PersistedPosition(hilton_state_file') =
                      [location_idx |-> loc_idx, page |-> page, hotel_idx |-> 0]
          /\ save_ret = "loc"
                => PersistedPosition(hilton_state_file') =
                      [location_idx |-> loc_idx + 1, page |-> 1, hotel_idx |-> 0]
      ]_vars

\* after an item failure and a restart, a location advance has been saved over
\* the position of an item of that location
C23_Witness ==
    /\ kills > 0
    /\ fails > 0
    /\ hilton_pc = "loc_next"
    /\ prev_state_file.kind = "ok"
    /\ hilton_state_file.kind = "ok"
    /\ PersistedPosition(prev_state_file).hotel_idx > 0
    /\ PersistedPosition(hilton_state_file).location_idx =
          PersistedPosition(prev_state_file).location_idx + 1

-----------------------------------------------------------------------------
\* Properties of run_parallel

\* the names whose process has been started
Started == { processes[k] : k \in DOMAIN processes }

\* C21: every named crawl is started as its own process before any of them is
\* waited for; no file is written by two crawls; a crawl that has failed does
\* not keep the next process from being started; and run_parallel returns only
\* after every started process has terminated.
C21_StartAllThenJoinAll ==
    /\ parallel_pc \in {"join", "returned"}
          => /\ Len(processes) = Len(names)
             /\ \A k \in DOMAIN names : processes[k] = names[k]
             /\ \A k \in DOMAIN names : child[names[k]] # "none"
    /\ \A path \in Paths : Cardinality(writers[path]) <= 1
    /\ \A name \in SCRAPERS : name \notin Started => child[name] = "none"
    /\ (parallel_pc = "start" /\ Len(processes) < Len(names))
          => ENABLED run_parallel_start
    /\ parallel_pc = "returned"
          => \A name \in Started : child[name] \in Terminated

\* run_parallel has returned from a list of two names or more, one of whose
\* processes failed before the last one was started and another of which
\* finished
C21_Witness ==
    /\ parallel_pc = "returned"
    /\ Len(names) >= 2
    /\ failed_while_starting
    /\ \E name \in Started : child[name] = "finished"

====
